---- MODULE Spec2Model ----
(***************************************************************************)
(* A model of bun-plugin-bundle (src/src/index.ts): the build-time naming  *)
(* and materialization of assets, the build-time resolution of a           *)
(* specifier, and the startup block the plugin injects, which fills the    *)
(* process-global override table and patches the resolution primitives.   *)
(*                                                                         *)
(* Strings whose characters matter (targetName, relativePath) are          *)
(* sequences of one-character strings.  Paths and lookup keys whose        *)
(* characters do not matter are records of a kind and a sequence of        *)
(* segments.                                                               *)
(***************************************************************************)
EXTENDS Integers, Sequences, FiniteSets, TLC

VARIABLES
  \* ---- naming and materialization of one asset (setup, lines 241-280)
  ePhase,        \* "idle" | "entry" | "named" | "written" | "started"
  entry,         \* the asset entry and the basename of its resolved source
  relativePath,  \* ResolvedAsset.relativePath, a string
  targetPath,    \* the segments of the path Bun.write is given
  moduleDir,     \* runtimeDir of the emitted module whose block ran
  outputPath,    \* the segments of the path that block registers
  \* ---- the process that executes injected startup blocks
  globals,       \* globalThis[globalKey]: globalKey -> table, or NoTable
  resolversInstalled, \* globalThis.__bundleAssetsResolversInstalled
  resolveSync,   \* Bun.resolveSync: the wrappers around the host's original
  resolveAsync,  \* Bun.resolve: likewise
  metaResolve,   \* import.meta.resolve of each entrypoint module: likewise
  helper,        \* globalThis[helperName]: the closure installed, or NoHelper
  lastBlock,     \* the build whose block executed last, or NoBuild
  lastCall,      \* the last resolution call and its outcome, or NoCall
  \* ---- resolution of one specifier at build time (setup, lines 146-239)
  rPhase,        \* the strategy about to be tried
  rInput,        \* specifier, entrypoint directories, file system
  rIndex,        \* position in the loop over entrypoints
  attempted,     \* the paths an existence check was made on
  sourcePath,    \* the match, or NoPath
  events,        \* every existence check and host-resolution call, in order
  resolutionErrors, \* the resolver errors recorded, in order
  thrown,        \* the error the resolution failed with, or NoError
  \* ---- one build: bundleAssetsPlugin(options) and its setup(build)
  bPhase,        \* the step of the build about to run
  config,        \* the plugin options and the host's build.config
  bIndex,        \* position in the loop over assets
  resolvedAssets, \* the ResolvedAsset list
  effects,       \* every effect on the world so far, in order
  disk,          \* the files written under the output root: path -> bytes
  tempOutdir,    \* whether the temporary directory of mkdtemp exists
  hooks,         \* whether build.onLoad and build.onEnd are registered
  injected,      \* the set `injected` of the onLoad callback
  prepended,     \* per file: its onLoad calls, and those returning the block
  loadCount,     \* how many onLoad invocations there were
  bError,        \* the error the build failed with, or "none"
  \* ---- a compiled executable and the files its startup block extracts
  generated,     \* what the generated block holds about the cache directory
  program,       \* the build the executable was compiled from
  onDisk,        \* the file system outside the executable: path -> bytes
  launches,      \* one record per run of the startup block
  racers         \* two concurrent first launches: each one's position

vars == <<ePhase, entry, relativePath, targetPath, moduleDir, outputPath,
          globals, resolversInstalled, resolveSync, resolveAsync, metaResolve,
          helper, lastBlock, lastCall,
          rPhase, rInput, rIndex, attempted, sourcePath, events,
          resolutionErrors, thrown,
          bPhase, config, bIndex, resolvedAssets, effects, disk, tempOutdir,
          hooks, injected, prepended, loadCount, bError, generated,
          program, onDisk, launches, racers>>

emitVars == <<ePhase, entry, relativePath, targetPath, moduleDir, outputPath>>
runtimeVars == <<globals, resolversInstalled, resolveSync, resolveAsync,
                 metaResolve, helper, lastBlock, lastCall>>
resolveVars == <<rPhase, rInput, rIndex, attempted, sourcePath, events,
                 resolutionErrors, thrown>>
buildVars == <<bPhase, config, bIndex, resolvedAssets, effects, disk,
               tempOutdir, hooks, injected, prepended, loadCount, bError,
               generated>>
startVars == <<program, onDisk, launches, racers>>

(***************************************************************************)
(* Bounds.                                                                 *)
(***************************************************************************)
\* Longest targetName / basename, in characters.
MaxLen == 4
\* Most entrypoints of a build whose specifier is resolved.
MaxEntrypoints == 2
\* Most assets of the build whose block is examined on its own.
MaxAssets == 3
\* Most startup blocks executed in one process.
MaxBlocks == 2
\* Most assets of the build that is followed from its options to its end.
MaxBuildAssets == 2
\* Most onLoad invocations of that build.
MaxLoads == 3
\* Most runs of the startup block of one executable.
MaxLaunches == 2

(***************************************************************************)
(* Strings as sequences of characters.                                     *)
(***************************************************************************)
\* The characters an input string is made of: a letter, the dot, both
\* separators, and one character outside [A-Za-z0-9._-].
InputChars == {"a", ".", "/", "\\", "$"}

RECURSIVE StringsUpTo(_)
StringsUpTo(n) ==
  IF n = 0 THEN {<<>>}
  ELSE LET shorter == StringsUpTo(n - 1)
       IN  shorter \cup {Append(s, c) : s \in {t \in shorter : Len(t) = n - 1},
                                          c \in InputChars}

\* The character class [A-Za-z0-9._-] of sanitizeSegment, over the model's
\* characters.
AllowedChars == {"a", ".", "-", "_"}

\* sanitizeSegment: every character outside the class becomes "-".
sanitizeSegment(value) ==
  [i \in DOMAIN value |-> IF value[i] \in AllowedChars THEN value[i] ELSE "-"]

\* value.split(re).filter(Boolean) for a separator class: the maximal runs of
\* non-separator characters, in order.
RECURSIVE SplitRuns(_, _, _)
SplitRuns(value, seps, cur) ==
  IF value = <<>> THEN (IF cur = <<>> THEN <<>> ELSE <<cur>>)
  ELSE IF Head(value) \in seps
       THEN (IF cur = <<>> THEN <<>> ELSE <<cur>>)
            \o SplitRuns(Tail(value), seps, <<>>)
       ELSE SplitRuns(Tail(value), seps, Append(cur, Head(value)))

\* value.split("/"): every piece between two separators, empty ones kept.
RECURSIVE SplitSlash(_, _)
SplitSlash(value, cur) ==
  IF value = <<>> THEN <<cur>>
  ELSE IF Head(value) = "/"
       THEN <<cur>> \o SplitSlash(Tail(value), <<>>)
       ELSE SplitSlash(Tail(value), Append(cur, Head(value)))

\* segments.join("/")
RECURSIVE JoinSlash(_)
JoinSlash(segments) ==
  IF segments = <<>> THEN <<>>
  ELSE IF Len(segments) = 1 THEN segments[1]
  ELSE segments[1] \o <<"/">> \o JoinSlash(Tail(segments))

\* normalizeTargetName
normalizeTargetName(value) ==
  LET segments == SplitRuns(value, {"/", "\\"}, <<>>)
  IN  IF Len(segments) = 0 THEN sanitizeSegment(<<"a", "s", "s", "e", "t">>)
      ELSE JoinSlash([i \in DOMAIN segments |-> sanitizeSegment(segments[i])])

(***************************************************************************)
(* Naming and materialization of one asset in copy mode.                   *)
(***************************************************************************)
Undefined == <<"undefined">>
NoString == <<"?">>
Dot == <<".">>
DotDot == <<".", ".">>

\* The build's output root (emissionRoot), an absolute directory, as segments.
EmissionRoot == <<<<"w">>, <<"o">>>>

\* path.join(root, ...segments) on an absolute root: "" and "." are dropped,
\* ".." removes the segment before it (and is dropped at the root directory).
RECURSIVE PathJoin(_, _)
PathJoin(root, segments) ==
  IF segments = <<>> THEN root
  ELSE LET s == Head(segments)
       IN  IF s = <<>> \/ s = Dot THEN PathJoin(root, Tail(segments))
           ELSE IF s = DotDot
                THEN PathJoin(IF root = <<>> THEN <<>>
                              ELSE SubSeq(root, 1, Len(root) - 1),
                              Tail(segments))
                ELSE PathJoin(Append(root, s), Tail(segments))

\* The entries: an object entry with a targetName (any string), or an entry
\* without one, named after the basename of its resolved source, which is the
\* name of an existing file: not empty, no "/" in it, not "." or "..".
BaseNames ==
  {s \in StringsUpTo(MaxLen) :
     /\ s # <<>>
     /\ s # Dot
     /\ s # DotDot
     /\ \A i \in DOMAIN s : s[i] # "/"}

Entries ==
  [targetName : StringsUpTo(MaxLen), baseName : {<<"a">>}]
  \cup [targetName : {Undefined}, baseName : BaseNames]

\* setup, lines 242-244
RelativePathOf(e) ==
  IF e.targetName # Undefined THEN normalizeTargetName(e.targetName)
  ELSE sanitizeSegment(e.baseName)

\* setup, lines 266 and 272
TargetPathOf(rel) == PathJoin(EmissionRoot, SplitSlash(rel, <<>>))

EmitInit ==
  /\ ePhase = "entry"
  /\ entry \in Entries
  /\ relativePath = NoString
  /\ targetPath = <<>>
  /\ moduleDir = <<>>
  /\ outputPath = <<>>

EmitIdle ==
  /\ ePhase = "idle"
  /\ entry = [targetName |-> Undefined, baseName |-> <<"a">>]
  /\ relativePath = NoString
  /\ targetPath = <<>>
  /\ moduleDir = <<>>
  /\ outputPath = <<>>

\* The asset is resolved and named (resolvedAssets.push).
NameAsset ==
  /\ ePhase = "entry"
  /\ relativePath' = RelativePathOf(entry)
  /\ ePhase' = "named"
  /\ UNCHANGED <<entry, targetPath, moduleDir, outputPath, runtimeVars,
                 resolveVars, buildVars, startVars>>

\* The copy-mode branch of the materialization loop.
WriteAsset ==
  /\ ePhase = "named"
  /\ targetPath' = TargetPathOf(relativePath)
  /\ ePhase' = "written"
  /\ UNCHANGED <<entry, relativePath, moduleDir, outputPath, runtimeVars,
                 resolveVars, buildVars, startVars>>

\* The directory of each configured entrypoint below the directory the
\* entrypoints have in common: one entrypoint, or two of which the second
\* lies in a subdirectory.
EntrypointLayouts == { << <<>> >>, << <<>>, << <<"s">> >> >> }

\* runtimeDir (line 345), import.meta.dir of an emitted entrypoint module:
\* the bundler emits each entrypoint below the output root at the directory
\* it has below the entrypoints' common directory.
EmittedDir(layout, i) == EmissionRoot \o layout[i]

\* path.resolve(dir, rel) for a string rel: an absolute rel replaces dir.
ResolveString(dir, rel) ==
  PathJoin(IF rel # <<>> /\ Head(rel) = "/" THEN <<>> ELSE dir,
           SplitSlash(rel, <<>>))

\* The startup block of an emitted entrypoint computes the asset's output
\* path (copy mode, lines 430-433).
StartModule ==
  /\ ePhase = "written"
  /\ \E layout \in EntrypointLayouts : \E i \in DOMAIN layout :
       /\ moduleDir' = EmittedDir(layout, i)
       /\ outputPath' = ResolveString(EmittedDir(layout, i), relativePath)
  /\ ePhase' = "started"
  /\ UNCHANGED <<entry, relativePath, targetPath, runtimeVars, resolveVars,
                 buildVars, startVars>>

(***************************************************************************)
(* Resolution of one specifier at build time.                              *)
(*                                                                         *)
(* A path is the sequence of its segments below the root directory.  A     *)
(* specifier is a kind and segments: "url" is file:///<segs>, "abs" is     *)
(* /<segs>, "rel" is ./<segs>, "up" is ../<segs>, "bare" is <segs>.        *)
(***************************************************************************)
NoPath == <<"<none>">>

\* process.cwd()
Cwd == <<"proj">>

\* The directories an entrypoint may lie in: the working directory, one
\* below it, one beside it.
EntrypointDirChoices == {<<"proj">>, <<"proj", "src">>, <<"lib">>}

Specifiers ==
  { [kind |-> "url",  segs |-> <<"abs", "f">>],
    [kind |-> "abs",  segs |-> <<"abs", "f">>],
    [kind |-> "rel",  segs |-> <<"f">>],
    [kind |-> "up",   segs |-> <<"f">>],
    [kind |-> "bare", segs |-> <<"pkg">>] }

\* specifier.startsWith('file://') || path.isAbsolute(specifier)
IsUrlOrAbsolute(specifier) == specifier.kind \in {"url", "abs"}

IsRelativeDotSlashOnly(specifier) == specifier.kind = "rel"

\* specifier.startsWith('./') || specifier.startsWith('../')
IsRelative(specifier) == specifier.kind \in {"rel", "up"}

\* path.resolve(dir, specifier)
PathResolve(dir, specifier) ==
  CASE specifier.kind \in {"url", "abs"} -> specifier.segs
    [] specifier.kind = "up" ->
         (IF dir = <<>> THEN <<>> ELSE SubSeq(dir, 1, Len(dir) - 1))
         \o specifier.segs
    [] OTHER -> dir \o specifier.segs

RECURSIVE SeqsUpTo(_, _)
SeqsUpTo(S, n) ==
  IF n = 0 THEN {<<>>}
  ELSE LET shorter == SeqsUpTo(S, n - 1)
       IN  shorter \cup {Append(s, x) : s \in {t \in shorter : Len(t) = n - 1},
                                          x \in S}

Range(f) == {f[i] : i \in DOMAIN f}

\* A location only the host's module resolution knows (node_modules).
HostOnlyPath == <<"proj", "node_modules", "pkg">>

\* The paths the resolution of a specifier can come to check.
CandidatePaths(specifier, dirs) ==
  {PathResolve(d, specifier) : d \in {Cwd} \cup Range(dirs)} \cup {HostOnlyPath}

\* What import.meta.resolve can do: throw, return something toFilePath
\* rejects, or return the URL of a path.
HostOutcomes(specifier, dirs) ==
  {<<"throw">>, <<"badurl">>} \cup {HostOnlyPath, PathResolve(Cwd, specifier)}

ResolveInputs ==
  UNION { UNION { [specifier : {sp}, dirs : {ds},
                   fs : SUBSET CandidatePaths(sp, ds)]
                  : ds \in SeqsUpTo(EntrypointDirChoices, MaxEntrypoints) }
          : sp \in Specifiers }

\* The resolution's local state as one record, for the helpers below.
RState == [attempted |-> attempted, sourcePath |-> sourcePath,
           events |-> events, errors |-> resolutionErrors, matched |-> FALSE]

\* What String(err) of a caught error is recorded as: where it was raised.
ResolverError(op, rank, idx) == [op |-> op, rank |-> rank, idx |-> idx]

tryPathNoDedup(st, candidatePath, rank, idx) ==
  LET exists == candidatePath \in rInput.fs
  IN  [st EXCEPT
         !.attempted = Append(@, candidatePath),
         !.events = Append(@, [op |-> "exists", path |-> candidatePath,
                               ok |-> exists, rank |-> rank, idx |-> idx]),
         !.sourcePath = IF exists THEN candidatePath ELSE @,
         !.matched = exists]

\* registerMatch and tryPath (lines 155-172)
tryPath(st, candidatePath, rank, idx) ==
  IF candidatePath \in Range(st.attempted)
  THEN [st EXCEPT !.matched = FALSE]
  ELSE LET exists == candidatePath \in rInput.fs
       IN  [st EXCEPT
              !.attempted = Append(@, candidatePath),
              !.events = Append(@, [op |-> "exists", path |-> candidatePath,
                                    ok |-> exists, rank |-> rank, idx |-> idx]),
              !.sourcePath = IF exists THEN candidatePath ELSE @,
              !.matched = exists]

\* tryUrl (lines 174-186): toFilePath may throw, which is recorded.
tryUrl(st, candidate, rank, idx) ==
  IF candidate = <<"badurl">>
  THEN [st EXCEPT !.errors = Append(@, ResolverError("toFilePath", rank, idx)),
                  !.matched = FALSE]
  ELSE tryPath(st, candidate, rank, idx)

\* attemptImportMetaResolve (lines 188-198); idx 0 is the call with no parent.
attemptImportMetaResolve(st, outcome, rank, idx) ==
  LET called == [st EXCEPT
                   !.events = Append(@, [op |-> "host", path |-> NoPath,
                                         ok |-> outcome # <<"throw">>,
                                         rank |-> rank, idx |-> idx])]
  IN  IF outcome = <<"throw">>
      THEN [called EXCEPT !.errors = Append(@, ResolverError("host", rank, idx)),
                          !.matched = FALSE]
      ELSE tryUrl(called, outcome, rank, idx)

\* No error thrown.
NoError == [kind |-> "none", checked |-> <<>>, errors |-> <<>>]

\* The error of lines 233-239: its message joins the attempted paths and the
\* recorded resolver errors.
NotFoundError(checked, errors) ==
  [kind |-> "NotFound", checked |-> checked, errors |-> errors]

Commit(st, phase, index) ==
  /\ thrown' = IF phase = "notfound"
               THEN NotFoundError(st.attempted, st.errors) ELSE thrown
  /\ attempted' = st.attempted
  /\ sourcePath' = st.sourcePath
  /\ events' = st.events
  /\ resolutionErrors' = st.errors
  /\ rPhase' = phase
  /\ rIndex' = index
  /\ UNCHANGED <<rInput, emitVars, runtimeVars, buildVars, startVars>>

ResolveInit ==
  /\ rPhase = "direct"
  /\ rInput \in ResolveInputs
  /\ rIndex = 1
  /\ attempted = <<>>
  /\ sourcePath = NoPath
  /\ events = <<>>
  /\ resolutionErrors = <<>>
  /\ thrown = NoError

ResolveIdle ==
  /\ rPhase = "idle"
  /\ rInput = [specifier |-> [kind |-> "bare", segs |-> <<"pkg">>],
               dirs |-> <<>>, fs |-> {}]
  /\ rIndex = 1
  /\ attempted = <<>>
  /\ sourcePath = NoPath
  /\ events = <<>>
  /\ resolutionErrors = <<>>
  /\ thrown = NoError

\* lines 200-204
TryDirect ==
  /\ rPhase = "direct"
  /\ LET sp == rInput.specifier
     IN  IF sp.kind = "url" THEN Commit(tryUrl(RState, sp.segs, 1, 0), "cwd", 1)
         ELSE IF sp.kind = "abs"
              THEN Commit(tryPath(RState, sp.segs, 1, 0), "cwd", 1)
              ELSE Commit(RState, "cwd", 1)

\* lines 206-207: the existence test relative to the working directory
TryCwd ==
  /\ rPhase = "cwd"
  /\ IF sourcePath = NoPath /\ IsRelative(rInput.specifier)
     THEN Commit(tryPath(RState, PathResolve(Cwd, rInput.specifier), 2, 0),
                 "dirs", 1)
     ELSE Commit(RState, "hostParents", 1)

DirLoopNeverStops(matched) == FALSE

\* Whether the loop over entrypoint directories stops after a match (break).
DirLoopStops(matched) == matched

\* lines 208-214: one iteration of the loop over entrypointDirs
TryDir ==
  /\ rPhase = "dirs"
  /\ IF (rIndex = 1 /\ sourcePath # NoPath) \/ rIndex > Len(rInput.dirs)
     THEN Commit(RState, "hostParents", 1)
     ELSE LET st == tryPath(RState,
                            PathResolve(rInput.dirs[rIndex], rInput.specifier),
                            3, rIndex)
          IN  IF DirLoopStops(st.matched) THEN Commit(st, "hostParents", 1)
              ELSE Commit(st, "dirs", rIndex + 1)

HostGuardBareOnly(specifier, found) ==
  found = NoPath /\ ~IsUrlOrAbsolute(specifier) /\ ~IsRelative(specifier)

\* The condition under which the host's resolution is attempted (lines 217
\* and 225): if (!sourcePath)
HostGuard(specifier, found) == found = NoPath

\* lines 217-223: one iteration of the loop over entrypointUrlParents
HostWithParent ==
  /\ rPhase = "hostParents"
  /\ IF ~HostGuard(rInput.specifier, sourcePath) \/ rIndex > Len(rInput.dirs)
     THEN Commit(RState, "hostNoParent", 1)
     ELSE \E outcome \in HostOutcomes(rInput.specifier, rInput.dirs) :
            LET st == attemptImportMetaResolve(RState, outcome, 4, rIndex)
            IN  IF st.matched THEN Commit(st, "hostNoParent", 1)
                ELSE Commit(st, "hostParents", rIndex + 1)

\* lines 225-227
HostNoParent ==
  /\ rPhase = "hostNoParent"
  /\ IF HostGuard(rInput.specifier, sourcePath)
     THEN \E outcome \in HostOutcomes(rInput.specifier, rInput.dirs) :
            Commit(attemptImportMetaResolve(RState, outcome, 5, 0),
                   "fallback", 1)
     ELSE Commit(RState, "fallback", 1)

FallbackGuardNever(specifier, found) == FALSE

\* The condition of the fallback (line 229)
FallbackGuard(specifier, found) ==
  found = NoPath /\ ~IsUrlOrAbsolute(specifier)

\* lines 229-231
CwdFallback ==
  /\ rPhase = "fallback"
  /\ IF FallbackGuard(rInput.specifier, sourcePath)
     THEN Commit(tryPath(RState, PathResolve(Cwd, rInput.specifier), 6, 0),
                 "finish", 1)
     ELSE Commit(RState, "finish", 1)

\* lines 233-239: the asset is located, or the build fails
FinishResolve ==
  /\ rPhase = "finish"
  /\ Commit(RState, IF sourcePath = NoPath THEN "notfound" ELSE "found", 1)

(***************************************************************************)
(* Lookup keys and paths at run time.                                      *)
(*                                                                         *)
(* A key is a kind and segments: "abs" is the absolute path /<segs>, "url" *)
(* is file:///<segs> with its segments percent-encoded, "rel" is ./<segs>, *)
(* "up" is ../<segs>, "bare" is a package-style name.                      *)
(***************************************************************************)
Key(kind, segs) == [kind |-> kind, segs |-> segs]

\* Percent-encoding of one path segment, as pathToFileURL does it.
EncodeSegment(seg) ==
  CASE seg = "my file" -> "my%20file"
    [] seg = "my%20file" -> "my%2520file"
    [] OTHER -> seg

\* Decoding of one URL segment, as fileURLToPath does it (the URL parser
\* first encodes a raw space).
DecodeSegment(seg) ==
  CASE seg = "my%20file" -> "my file"
    [] seg = "my%2520file" -> "my%20file"
    [] OTHER -> seg

\* pathToFileURL(p).href
pathToFileURL(p) == Key("url", [i \in DOMAIN p.segs |-> EncodeSegment(p.segs[i])])

\* fileURLToPath(u)
fileURLToPath(u) == Key("abs", [i \in DOMAIN u.segs |-> DecodeSegment(u.segs[i])])

\* key.startsWith("/$bunfs/root/")
IsBunfsPath(key) ==
  /\ key.kind = "abs"
  /\ Len(key.segs) >= 3
  /\ key.segs[1] = "$bunfs"
  /\ key.segs[2] = "root"

\* path.resolve(dir, ...) of relative segments: ".." removes a segment.
RECURSIVE ResolveSegs(_, _)
ResolveSegs(dir, segs) ==
  IF segs = <<>> THEN dir
  ELSE IF Head(segs) = ".."
       THEN ResolveSegs(IF dir = <<>> THEN <<>>
                        ELSE SubSeq(dir, 1, Len(dir) - 1), Tail(segs))
       ELSE IF Head(segs) = "." THEN ResolveSegs(dir, Tail(segs))
            ELSE ResolveSegs(Append(dir, Head(segs)), Tail(segs))

\* path.resolve(runtimeDir, key) for a key starting with "./" or "../"
ResolveFromRuntime(runtimeDir, key) ==
  Key("abs", ResolveSegs(runtimeDir,
                         IF key.kind = "up" THEN <<"..">> \o key.segs
                         ELSE key.segs))

(***************************************************************************)
(* The manifest (setup, lines 284-305).                                    *)
(***************************************************************************)
\* Array.from(new Set(list)): the first occurrence of each element, in order.
RECURSIVE Dedup(_)
Dedup(list) ==
  IF list = <<>> THEN <<>>
  ELSE LET rest == Dedup(SubSeq(list, 1, Len(list) - 1))
           last == list[Len(list)]
       IN  IF last \in Range(rest) THEN rest ELSE Append(rest, last)

RECURSIVE BunfsVariantsOfEvery(_)
BunfsVariantsOfEvery(runtimeKeys) ==
  IF runtimeKeys = <<>> THEN <<>>
  ELSE << Key("url", <<"$bunfs", "root">> \o Head(runtimeKeys).segs),
          Key("abs", <<"$bunfs", "root">> \o Head(runtimeKeys).segs) >>
       \o BunfsVariantsOfEvery(Tail(runtimeKeys))

\* lines 292-297: the bunfs-root variants of the runtimeKeys starting "./"
RECURSIVE BunfsVariants(_)
BunfsVariants(runtimeKeys) ==
  IF runtimeKeys = <<>> THEN <<>>
  ELSE LET key == Head(runtimeKeys)
       IN  (IF key.kind = "rel"
            THEN << Key("url", <<"$bunfs", "root">> \o key.segs),
                    Key("abs", <<"$bunfs", "root">> \o key.segs) >>
            ELSE <<>>)
           \o BunfsVariants(Tail(runtimeKeys))

\* The keys of one manifest entry.
ManifestKeys(asset) ==
  Dedup(asset.runtimeKeys \o BunfsVariants(asset.runtimeKeys)
        \o <<asset.specifier, asset.sourcePath, asset.sourceUrl>>)

(***************************************************************************)
(* The assets and builds the model draws from.                             *)
(***************************************************************************)
ResolvedAssetOf(specifier, source, rel, runtimeKeys) ==
  [specifier |-> specifier, sourcePath |-> Key("abs", source),
   sourceUrl |-> pathToFileURL(Key("abs", source)),
   relativePath |-> rel, runtimeKeys |-> runtimeKeys]

SharedAlias == Key("bare", <<"shared-alias">>)
SampleKey == Key("rel", <<"assets", "sample.txt">>)

\* An object entry with two runtime keys, an entry that shares the alias, and
\* a string entry whose specifier is the alias itself.
Assets ==
  { ResolvedAssetOf(SampleKey, <<"proj", "assets", "sample.txt">>,
                    <<"static", "sample.txt">>, <<SampleKey, SharedAlias>>),
    ResolvedAssetOf(Key("bare", <<"pkg">>), <<"proj", "node_modules", "pkg">>,
                    <<"pkg.js">>, <<SharedAlias>>),
    ResolvedAssetOf(SharedAlias, <<"proj", "my file">>,
                    <<"my-file">>, <<>>) }

GlobalKeys == {"__bundleAssets", "__otherAssets"}

\* import.meta.dir of a built entrypoint module
RuntimeDir == <<"dist">>

BuildsOf(lists) == [globalKey : GlobalKeys, assets : lists]

NonEmpty(lists) == {l \in lists : l # <<>>}

\* Builds of one to MaxAssets assets.
Builds == BuildsOf(NonEmpty(SeqsUpTo(Assets, MaxAssets)))

\* The builds whose blocks share a process: one asset, or two.
ProcessBuilds ==
  BuildsOf({<<a>> : a \in Assets} \cup {<<a, b>> : a \in Assets, b \in Assets})

\* Builds of two entries in which a key of one denotes a location of the
\* other, in either order.  "logo" is emitted as static/logo.png and has the
\* runtimeKey ./assets/logo.png, "icon" is emitted as assets/logo.png.
\* "notes" has the runtimeKey file:///proj/my file, a URL as it is typed, with
\* its space; the string entry is the file /proj/my file itself.
OverlapBuilds ==
  LET logo == ResolvedAssetOf(Key("bare", <<"logo">>),
                              <<"proj", "img", "logo.png">>,
                              <<"static", "logo.png">>,
                              << Key("rel", <<"assets", "logo.png">>) >>)
      icon == ResolvedAssetOf(Key("bare", <<"icon">>),
                              <<"proj", "img", "icon.png">>,
                              <<"assets", "logo.png">>, <<>>)
      notes == ResolvedAssetOf(Key("bare", <<"notes">>),
                               <<"proj", "docs", "notes.txt">>,
                               <<"notes.txt">>,
                               << Key("url", <<"proj", "my file">>) >>)
      myFile == ResolvedAssetOf(SharedAlias, <<"proj", "my file">>,
                                <<"my-file">>, <<>>)
  IN  BuildsOf({ <<logo, icon>>, <<icon, logo>>,
                 <<notes, myFile>>, <<myFile, notes>> })

(***************************************************************************)
(* The generated startup block.                                            *)
(***************************************************************************)
EmptyTable == [k \in {} |-> Key("abs", <<>>)]

\* The variants registerKey adds to a key (lines 351-372).
Variants(key) ==
  {key} \cup
  ( CASE key.kind = "url" -> {fileURLToPath(key)}
      [] IsBunfsPath(key) -> {Key("url", key.segs)}
      [] key.kind = "abs" -> {pathToFileURL(key)}
      [] key.kind \in {"rel", "up"} ->
           LET absoluteFromRuntime == ResolveFromRuntime(RuntimeDir, key)
           IN  {absoluteFromRuntime, pathToFileURL(absoluteFromRuntime)}
               \cup (IF key.kind = "rel"
                     THEN { Key("abs", <<"$bunfs", "root">> \o key.segs),
                            Key("url", <<"$bunfs", "root">> \o key.segs) }
                     ELSE {})
      [] OTHER -> {} )

RegisterKeyLastWins(overrides, key, value) ==
  [k \in DOMAIN overrides \cup Variants(key) |->
     IF k \in Variants(key) THEN value ELSE overrides[k]]

\* registerKey (lines 349-378): a variant already present keeps its value.
registerKey(overrides, key, value) ==
  [k \in DOMAIN overrides \cup Variants(key) |->
     IF k \in DOMAIN overrides THEN overrides[k] ELSE value]

RECURSIVE RegisterKeys(_, _, _)
RegisterKeys(overrides, keys, value) ==
  IF keys = <<>> THEN overrides
  ELSE RegisterKeys(registerKey(overrides, Head(keys), value), Tail(keys), value)

\* registerAll (lines 379-385)
registerAll(overrides, keys, value) ==
  RegisterKeys(registerKey(registerKey(overrides, value, value),
                           pathToFileURL(value), value),
               keys, value)

\* path.resolve(runtimeDir, asset.relativePath) (line 431)
OutputPath(asset) == Key("abs", ResolveSegs(RuntimeDir, asset.relativePath))

\* The loop over entries (lines 430-433), over the assets in manifest order.
RECURSIVE RegisterEntries(_, _)
RegisterEntries(overrides, assets) ==
  IF assets = <<>> THEN overrides
  ELSE RegisterEntries(registerAll(overrides, ManifestKeys(Head(assets)),
                                   OutputPath(Head(assets))),
                       Tail(assets))

NoTable == [present |-> FALSE, map |-> EmptyTable]

\* The merge into globalThis[globalKey] (lines 436-441): the table already
\* there is kept and every key of this block is assigned into it.
MergeIntoGlobal(current, overrides) ==
  [present |-> TRUE,
   map |-> [k \in DOMAIN current.map \cup DOMAIN overrides |->
              IF k \in DOMAIN overrides THEN overrides[k]
              ELSE current.map[k]]]

NoValue == Key("none", <<>>)

\* findOverride (lines 443-463), closed over the block's globalKey.
findOverride(globalKey, key) ==
  LET table == globals[globalKey]
  IN  IF ~table.present THEN NoValue
      ELSE IF key \in DOMAIN table.map THEN table.map[key]
      ELSE IF key.kind = "url"
           THEN (IF fileURLToPath(key) \in DOMAIN table.map
                 THEN table.map[fileURLToPath(key)] ELSE NoValue)
      ELSE IF key.kind = "abs"
           THEN (IF pathToFileURL(key) \in DOMAIN table.map
                 THEN table.map[pathToFileURL(key)] ELSE NoValue)
      ELSE NoValue

applyOverrideOnly(globalKey, specifier, resolved) ==
  IF findOverride(globalKey, specifier) # NoValue
  THEN findOverride(globalKey, specifier)
  ELSE findOverride(globalKey, resolved)

applyOverrideIgnoresResolved(globalKey, specifier, resolved) ==
  IF findOverride(globalKey, specifier) # NoValue
  THEN findOverride(globalKey, specifier)
  ELSE resolved

\* applyOverride (lines 464-472)
applyOverride(globalKey, specifier, resolved) ==
  IF findOverride(globalKey, specifier) # NoValue
  THEN findOverride(globalKey, specifier)
  ELSE IF findOverride(globalKey, resolved) # NoValue
       THEN findOverride(globalKey, resolved)
       ELSE resolved

DirectHitNever(globalKey, specifier) == NoValue

\* The value a patched primitive returns at once, before calling the
\* original: const direct = findOverride(specifier) (lines 482, 505, 537).
DirectHit(globalKey, specifier) == findOverride(globalKey, specifier)

Returned(value, origCalls, depth) ==
  [kind |-> "ret", val |-> value, orig |-> origCalls, wrappers |-> depth]

\* What a wrapper does with the outcome of the function it wraps: the body of
\* its try/catch (lines 486-495), or of its then/catch (lines 512-518).
AfterOriginal(globalKey, specifier, inner) ==
  IF inner.kind = "ret"
  THEN Returned(applyOverride(globalKey, specifier, inner.val),
                inner.orig, inner.wrappers + 1)
  ELSE IF findOverride(globalKey, specifier) # NoValue
       THEN Returned(findOverride(globalKey, specifier),
                     inner.orig, inner.wrappers + 1)
       ELSE [inner EXCEPT !.wrappers = @ + 1]

\* What the host's original primitive does when it is reached.
Original(outcome) ==
  [kind |-> outcome.kind, val |-> outcome.val, orig |-> 1, wrappers |-> 0]

\* A call of a resolution primitive.  `layers` are the wrappers around the
\* host's original, outermost first, each the globalKey its block closed
\* over.  The three wrappers (lines 481-496, 504-528, 536-560) have the same
\* body.
RECURSIVE Invoke(_, _, _)
Invoke(layers, specifier, outcome) ==
  IF layers = <<>> THEN Original(outcome)
  ELSE IF DirectHit(Head(layers), specifier) # NoValue
       THEN Returned(DirectHit(Head(layers), specifier), 0, 1)
       ELSE AfterOriginal(Head(layers), specifier,
                          Invoke(Tail(layers), specifier, outcome))

\* Whether a call of the asynchronous primitive returns a promise that is
\* still to settle: the host's own promise, or a wrapper's then/catch chain.
StaysPending(layers, specifier) ==
  layers = <<>> \/ DirectHit(Head(layers), specifier) = NoValue

\* What that promise settles to, in the state in which it settles.
Settled(layers, specifier, outcome) ==
  IF layers = <<>> THEN Original(outcome)
  ELSE AfterOriginal(Head(layers), specifier,
                     Invoke(Tail(layers), specifier, outcome))

WrapAlways(installed, primitive, globalKey) == <<globalKey>> \o primitive

\* installResolvers, for one primitive (lines 474-476 with 478-499, 500-531
\* or 534-571): nothing once the installed flag is set or the function bears
\* the patched marker; otherwise the function is wrapped.
Wrap(installed, primitive, globalKey) ==
  IF installed \/ primitive # <<>> THEN primitive
  ELSE <<globalKey>> \o primitive

NoBuild == [globalKey |-> "", assets |-> <<>>]
NoHelper == [installed |-> FALSE, globalKey |-> ""]
NoResult == [kind |-> "none", val |-> NoValue, orig |-> 0, wrappers |-> 0]
NoCall == [prim |-> "none", module |-> 0, layers |-> <<>>,
           specifier |-> NoValue, outcome |-> [kind |-> "none", val |-> NoValue],
           stage |-> "none", grown |-> FALSE, result |-> NoResult]

RuntimeInit ==
  /\ globals = [g \in GlobalKeys |-> NoTable]
  /\ resolversInstalled = FALSE
  /\ resolveSync = <<>>
  /\ resolveAsync = <<>>
  /\ metaResolve = <<>>
  /\ helper = NoHelper
  /\ lastBlock = NoBuild
  /\ lastCall = NoCall

\* What the startup block of a build does to the process once its own table
\* `overrides` is filled (lines 436-589, default helperName).  The block runs
\* to its end without interruption; it may run while a promise of
\* Bun.resolve is pending.
BlockRuns(build, overrides) ==
  /\ lastCall.stage \in {"none", "pending"}
  /\ globals' = [globals EXCEPT ![build.globalKey] =
                   MergeIntoGlobal(@, overrides)]
  /\ resolveSync' = Wrap(resolversInstalled, resolveSync, build.globalKey)
  /\ resolveAsync' = Wrap(resolversInstalled, resolveAsync, build.globalKey)
  /\ metaResolve' = Append(metaResolve,
                           Wrap(resolversInstalled, <<>>, build.globalKey))
  /\ resolversInstalled' = TRUE
  /\ helper' = IF helper.installed THEN helper
               ELSE [installed |-> TRUE, globalKey |-> build.globalKey]
  /\ lastBlock' = build
  /\ lastCall' = IF lastCall.stage = "pending"
                 THEN [lastCall EXCEPT !.grown = TRUE] ELSE lastCall

\* The startup block of one build executes, in a module of its own (lines
\* 341-589, copy mode).
RunBlock(build) ==
  /\ BlockRuns(build, RegisterEntries(EmptyTable, build.assets))
  /\ UNCHANGED <<emitVars, resolveVars, buildVars, startVars>>

\* The specifiers application code resolves: the shared alias, a relative
\* runtime key, a name no build registers, a source URL, an output path.
CallSpecifiers ==
  { SharedAlias, SampleKey, Key("bare", <<"missing">>),
    Key("url", <<"proj", "my%20file">>), Key("abs", <<"dist", "pkg.js">>) }

\* What the host's original primitive does: raise, return a path that is no
\* key, or return a source path that is a key, as a path or as a file URL.
OrigOutcomes ==
  { [kind |-> "raise", val |-> NoValue],
    [kind |-> "ret", val |-> Key("abs", <<"elsewhere", "x">>)],
    [kind |-> "ret", val |-> Key("abs", <<"proj", "assets", "sample.txt">>)],
    [kind |-> "ret", val |-> Key("url", <<"proj", "assets", "sample.txt">>)] }

CallRecord(prim, module, layers, specifier, outcome, stage, result) ==
  [prim |-> prim, module |-> module, layers |-> layers,
   specifier |-> specifier, outcome |-> outcome,
   stage |-> stage, grown |-> FALSE, result |-> result]

CallFrame == <<globals, resolversInstalled, resolveSync, resolveAsync,
               metaResolve, helper, lastBlock, emitVars, resolveVars,
               buildVars, startVars>>

\* Application code calls Bun.resolveSync(specifier).
CallResolveSync ==
  /\ lastCall.stage = "none"
  /\ \E specifier \in CallSpecifiers, outcome \in OrigOutcomes :
       lastCall' = CallRecord("resolveSync", 0, resolveSync, specifier, outcome,
                              "returned",
                              Invoke(resolveSync, specifier, outcome))
  /\ UNCHANGED CallFrame

\* Application code calls Bun.resolve(specifier): on a direct hit the promise
\* is already resolved, otherwise it is pending.
CallResolve ==
  /\ lastCall.stage = "none"
  /\ \E specifier \in CallSpecifiers, outcome \in OrigOutcomes :
       lastCall' =
         IF StaysPending(resolveAsync, specifier)
         THEN CallRecord("resolve", 0, resolveAsync, specifier, outcome,
                         "pending", NoResult)
         ELSE CallRecord("resolve", 0, resolveAsync, specifier, outcome,
                         "returned",
                         Invoke(resolveAsync, specifier, outcome))
  /\ UNCHANGED CallFrame

\* The pending promise of Bun.resolve settles.
SettleResolve ==
  /\ lastCall.stage = "pending"
  /\ lastCall' = [lastCall EXCEPT
                    !.stage = "settled",
                    !.result = Settled(lastCall.layers, lastCall.specifier,
                                       lastCall.outcome)]
  /\ UNCHANGED CallFrame

\* An entrypoint module calls its import.meta.resolve(specifier).
CallMetaResolve ==
  /\ lastCall.stage = "none"
  /\ \E module \in DOMAIN metaResolve, specifier \in CallSpecifiers,
        outcome \in OrigOutcomes :
       lastCall' = CallRecord("metaResolve", module, metaResolve[module],
                              specifier, outcome, "returned",
                              Invoke(metaResolve[module], specifier, outcome))
  /\ UNCHANGED CallFrame

\* typeof value === "string"
IsString(value) == value.kind \in {"url", "abs", "rel", "up", "bare"}

HelperResultEcho(globalKey, specifier) ==
  IF findOverride(globalKey, specifier) # NoValue
  THEN findOverride(globalKey, specifier)
  ELSE specifier

\* The helper's body (lines 579-585); null is NoValue.
HelperResult(globalKey, specifier) ==
  IF ~globals[globalKey].present \/ ~IsString(specifier) THEN NoValue
  ELSE IF findOverride(globalKey, specifier) # NoValue
       THEN findOverride(globalKey, specifier)
       ELSE IF specifier \in DOMAIN globals[globalKey].map
            THEN globals[globalKey].map[specifier]
            ELSE NoValue

\* Application code calls globalThis.getBundleAsset(specifier).
CallHelper ==
  /\ lastCall.stage = "none"
  /\ helper.installed
  /\ \E specifier \in CallSpecifiers :
       lastCall' = CallRecord("helper", 0, <<helper.globalKey>>, specifier,
                              [kind |-> "none", val |-> NoValue], "returned",
                              Returned(HelperResult(helper.globalKey, specifier),
                                       0, 0))
  /\ UNCHANGED CallFrame

\* What application code may hand to the helper: the specifiers it
\* resolves, a source path, an unencoded URL of that path, and a value that
\* is no string.
HelperArguments ==
  CallSpecifiers \cup { Key("abs", <<"proj", "my file">>),
                        Key("url", <<"proj", "my file">>),
                        Key("number", <<>>) }

\* Application code calls the helper with any argument.
CallHelperWith ==
  /\ lastCall.stage = "none"
  /\ helper.installed
  /\ \E argument \in HelperArguments :
       lastCall' = CallRecord("helper", 0, <<helper.globalKey>>, argument,
                              [kind |-> "none", val |-> NoValue], "returned",
                              Returned(HelperResult(helper.globalKey, argument),
                                       0, 0))
  /\ UNCHANGED CallFrame

\* Application code removes the table from globalThis, the case the helper
\* guards against with `!map`.
DropTable ==
  /\ lastCall.stage = "none"
  /\ helper.installed
  /\ globals[helper.globalKey].present
  /\ globals' = [globals EXCEPT ![helper.globalKey] = NoTable]
  /\ UNCHANGED <<resolversInstalled, resolveSync, resolveAsync, metaResolve,
                 helper, lastBlock, lastCall, emitVars, resolveVars,
                 buildVars, startVars>>

\* The caller takes the result of its call.
Return ==
  /\ lastCall.stage \in {"returned", "settled"}
  /\ lastCall' = NoCall
  /\ UNCHANGED CallFrame

RuntimeIdle == RuntimeInit

(***************************************************************************)
(* One build, from the plugin's options to the end of the build.           *)
(***************************************************************************)
\* An asset entry of the build: its targetName, the basename and directory
\* of the source file the resolution locates (located is FALSE when no
\* strategy finds a file), and the bytes of that file.
BuildAsset(targetName, baseName, dir, bytes, located) ==
  [targetName |-> targetName, baseName |-> baseName, dir |-> dir,
   bytes |-> bytes, located |-> located]

\* Two files of the same name in different directories, a file emitted into
\* a subdirectory, and a specifier nothing resolves.
BuildAssetChoices ==
  { BuildAsset(Undefined, <<"a">>, "x", 1, TRUE),
    BuildAsset(Undefined, <<"a">>, "y", 2, TRUE),
    BuildAsset(<<"_", "/", "a">>, <<"a">>, "x", 1, TRUE),
    BuildAsset(Undefined, <<"a">>, "z", 0, FALSE) }

\* build.config.entrypoints
EntrypointChoices ==
  { << Key("bare", <<"app.ts">>) >>,
    << Key("rel", <<"app.ts">>), Key("bare", <<"src", "cli.ts">>) >> }

\* options and build.config: compile is undefined, false, true or an object
\* with an outfile; outdir is set or not; outfile is a top-level output-file
\* path, set or not; extractionDir is undefined, relative or absolute.
Configs ==
  [assets : SeqsUpTo(BuildAssetChoices, MaxBuildAssets),
   target : {"bun", "node", "browser"},
   extractionDir : {"undefined", "relative", "absolute"},
   compile : {"undefined", "false", "true", "outfile"},
   outdir : BOOLEAN,
   outfile : BOOLEAN,
   entrypoints : EntrypointChoices]

\* line 130
isCompile(cfg) == cfg.compile \notin {"undefined", "false"}

\* lines 123-129
compileOutfile(cfg) == cfg.compile = "outfile"

\* line 132: whether bundleOutputRoot is defined
bundleOutputRoot(cfg) == cfg.outdir \/ compileOutfile(cfg)

\* lines 101-103, in bundleAssetsPlugin itself
ConstructError(cfg) == IF cfg.assets = <<>> THEN "emptyAssets" ELSE "none"

SetupErrorNoBrowser(cfg) ==
  IF cfg.extractionDir = "relative" THEN "extractionDir"
  ELSE IF ~isCompile(cfg) /\ ~bundleOutputRoot(cfg) THEN "noOutput"
  ELSE "none"

\* lines 109-138: the configuration checks of setup, in their order
SetupError(cfg) ==
  IF cfg.target = "browser" THEN "browser"
  ELSE IF cfg.extractionDir = "relative" THEN "extractionDir"
  ELSE IF ~isCompile(cfg) /\ ~bundleOutputRoot(cfg) THEN "noOutput"
  ELSE "none"

ResolutionFailsNever(asset) == FALSE

\* line 233: if (!sourcePath) throw
ResolutionFails(asset) == ~asset.located

\* Buffer.from(raw).toString('base64') (line 269) and its inverse
Base64(bytes) == <<"base64", bytes>>
FromBase64(data) == data[2]

\* lines 241-251: the ResolvedAsset pushed for a located asset
ResolvedOf(asset) ==
  [sourcePath |-> <<asset.dir, asset.baseName>>,
   relativePath |-> RelativePathOf(asset),
   bytes |-> asset.bytes,
   base64 |-> <<>>]

Effect(op, at) == [op |-> op, at |-> at]

NoDisk == [p \in {} |-> 0]

\* Bun.write(targetPath, ...): the file at targetPath now has these bytes.
WriteFile(files, target, bytes) ==
  [p \in DOMAIN files \cup {target} |->
     IF p = target THEN bytes ELSE files[p]]

\* path.resolve(process.cwd(), entry) of each entrypoint (line 142)
entrypointAbsPaths(cfg) ==
  {PathResolve(Cwd, cfg.entrypoints[i]) : i \in DOMAIN cfg.entrypoints}

\* The files the bundler loads: an entrypoint by two spellings, another
\* entrypoint, and a module that is no entrypoint.
LoadPaths ==
  { Key("abs", <<"proj", "app.ts">>), Key("rel", <<"app.ts">>),
    Key("abs", <<"proj", "src", "cli.ts">>), Key("abs", <<"proj", "lib.ts">>) }

ShouldInjectEveryTime(normalized, entrypointSet, injectedSet) ==
  normalized \in entrypointSet

\* line 597, negated: the file is an entrypoint not yet injected
ShouldInject(normalized, entrypointSet, injectedSet) ==
  normalized \in entrypointSet /\ normalized \notin injectedSet

\* Date.now() (line 338): the instants a build may run at
Clock == {"t1", "t2"}

\* Bun.hash(String(text)).toString(36) (lines 333, 338): a name that is a
\* function of the hashed text and of nothing else.
BunHash(of, text) == [of |-> of, text |-> text]

\* fingerprint is null outside compile mode (line 333)
NoFingerprint == [of |-> "null", text |-> <<>>]

\* One entry of compileAssetsLiteral (lines 309-329): the relative path, the
\* base64 data, and the keys, which are derived from the source path.
CompileEntry(asset) ==
  [relativePath |-> asset.relativePath,
   data |-> asset.base64,
   sourcePath |-> asset.sourcePath]

\* lines 307-331
compileAssetsLiteral(assets) ==
  [i \in DOMAIN assets |-> CompileEntry(assets[i])]

\* line 333
fingerprint(cfg, assets) ==
  IF isCompile(cfg) THEN BunHash("manifest", compileAssetsLiteral(assets))
  ELSE NoFingerprint

runtimeFingerprintFromClock(fp, now) == BunHash("clock", <<now>>)

\* line 338: fingerprint ?? Bun.hash(String(Date.now())).toString(36)
runtimeFingerprint(fp, now) ==
  IF fp.of # "null" THEN fp ELSE BunHash("clock", <<now>>)

\* lines 335-337: the absolute extractionDir as a literal, else an
\* expression over os.tmpdir() that the launch evaluates
cacheRootExpr(cfg) ==
  IF cfg.extractionDir = "absolute" THEN "extractionDirAbs"
  ELSE "path.join(os.tmpdir(), 'bun-plugin-bundle')"

\* lines 392-393: the cache root expression and the directory name that the
\* block joins to it; the name is a literal of the generated block.
GeneratedBlock(cfg, assets, now) ==
  [cacheRoot |-> cacheRootExpr(cfg),
   runtimeFingerprint |-> runtimeFingerprint(fingerprint(cfg, assets), now),
   now |-> now]

NoBlock == [cacheRoot |-> "none", runtimeFingerprint |-> NoFingerprint,
            now |-> "none"]

BuildStart(cfg, phase) ==
  /\ bPhase = phase
  /\ config = cfg
  /\ bIndex = 1
  /\ resolvedAssets = <<>>
  /\ effects = <<>>
  /\ disk = NoDisk
  /\ tempOutdir = FALSE
  /\ hooks = FALSE
  /\ injected = {}
  /\ prepended = [p \in {PathResolve(Cwd, l) : l \in LoadPaths} |->
                    [loads |-> 0, modified |-> 0]]
  /\ loadCount = 0
  /\ bError = "none"
  /\ generated = NoBlock

BuildInit == \E cfg \in Configs : BuildStart(cfg, "construct")

BuildIdle ==
  BuildStart([assets |-> <<>>, target |-> "bun", extractionDir |-> "undefined",
              compile |-> "undefined", outdir |-> FALSE, outfile |-> FALSE,
              entrypoints |-> << Key("bare", <<"app.ts">>) >>], "idle")

BuildFrame == <<config, emitVars, runtimeVars, resolveVars, startVars>>

\* bundleAssetsPlugin(options), lines 93-105
Construct ==
  /\ bPhase = "construct"
  /\ bError' = ConstructError(config)
  /\ bPhase' = IF ConstructError(config) # "none" THEN "failed" ELSE "setup"
  /\ UNCHANGED <<bIndex, resolvedAssets, effects, disk, tempOutdir, hooks,
                 injected, prepended, loadCount, generated,
                 BuildFrame>>

\* setup, lines 107-144
CheckConfig ==
  /\ bPhase = "setup"
  /\ bError' = SetupError(config)
  /\ bPhase' = IF SetupError(config) # "none" THEN "failed" ELSE "resolve"
  /\ UNCHANGED <<bIndex, resolvedAssets, effects, disk, tempOutdir, hooks,
                 injected, prepended, loadCount, generated,
                 BuildFrame>>

\* One iteration of the loop over assets (lines 146-252).  The existence
\* checks and host calls of the iteration are one "resolve" effect here.
ResolveAsset ==
  /\ bPhase = "resolve"
  /\ IF bIndex > Len(config.assets)
     THEN /\ bPhase' = "prepare"
          /\ bIndex' = 1
          /\ UNCHANGED <<resolvedAssets, effects, bError>>
     ELSE /\ effects' = Append(effects, Effect("resolve", bIndex))
          /\ IF ResolutionFails(config.assets[bIndex])
             THEN /\ bError' = "NotFound"
                  /\ bPhase' = "failed"
                  /\ UNCHANGED <<bIndex, resolvedAssets>>
             ELSE /\ resolvedAssets' =
                       Append(resolvedAssets, ResolvedOf(config.assets[bIndex]))
                  /\ bIndex' = bIndex + 1
                  /\ UNCHANGED <<bPhase, bError>>
  /\ UNCHANGED <<disk, tempOutdir, hooks, injected, prepended, loadCount,
                 generated,
                 BuildFrame>>

\* lines 254-262: mkdtemp when a compile build has no output root, mkdir of
\* the emission root in copy mode
PrepareOutput ==
  /\ bPhase = "prepare"
  /\ tempOutdir' = (~bundleOutputRoot(config) /\ isCompile(config))
  /\ effects' = effects
                \o (IF ~bundleOutputRoot(config) /\ isCompile(config)
                    THEN <<Effect("mkdtemp", 0)>> ELSE <<>>)
                \o (IF ~isCompile(config) THEN <<Effect("mkdir", 0)>>
                    ELSE <<>>)
  /\ bPhase' = "materialize"
  /\ bIndex' = 1
  /\ UNCHANGED <<resolvedAssets, disk, hooks, injected, prepended, loadCount,
                 bError, generated,
                 BuildFrame>>

\* One iteration of the loop over resolvedAssets (lines 264-280).  In
\* compile mode the source file is read (line 268), which throws when the
\* file can no longer be read; setup then rejects.
MaterializeAsset ==
  /\ bPhase = "materialize"
  /\ IF bIndex > Len(resolvedAssets)
     THEN /\ bPhase' = "inject"
          /\ UNCHANGED <<bIndex, resolvedAssets, effects, disk, bError>>
     ELSE IF isCompile(config)
          THEN \E readable \in BOOLEAN :
                 IF readable
                 THEN /\ resolvedAssets' =
                           [resolvedAssets EXCEPT ![bIndex].base64 =
                              Base64(resolvedAssets[bIndex].bytes)]
                      /\ effects' = Append(effects, Effect("embed", bIndex))
                      /\ bIndex' = bIndex + 1
                      /\ UNCHANGED <<bPhase, disk, bError>>
                 ELSE /\ bError' = "ReadFailed"
                      /\ bPhase' = "failed"
                      /\ UNCHANGED <<bIndex, resolvedAssets, effects, disk>>
          ELSE /\ disk' = WriteFile(disk,
                            TargetPathOf(resolvedAssets[bIndex].relativePath),
                            resolvedAssets[bIndex].bytes)
               /\ effects' = Append(effects, Effect("write", bIndex))
               /\ bIndex' = bIndex + 1
               /\ UNCHANGED <<bPhase, resolvedAssets, bError>>
  /\ UNCHANGED <<tempOutdir, hooks, injected, prepended, loadCount, generated,
                 BuildFrame>>

\* lines 282-610: the block is generated and the two hooks are registered
RegisterHooks ==
  /\ bPhase = "inject"
  /\ hooks' = TRUE
  /\ \E now \in Clock : generated' = GeneratedBlock(config, resolvedAssets, now)
  /\ bPhase' = "loading"
  /\ UNCHANGED <<bIndex, resolvedAssets, effects, disk, tempOutdir, injected,
                 prepended, loadCount, bError, BuildFrame>>

\* The onLoad callback (lines 595-603), called by the bundler for a file
OnLoad ==
  /\ bPhase = "loading"
  /\ loadCount < MaxLoads
  /\ \E path \in LoadPaths :
       LET normalized == PathResolve(Cwd, path)
       IN  IF ShouldInject(normalized, entrypointAbsPaths(config), injected)
           THEN /\ injected' = injected \cup {normalized}
                /\ prepended' = [prepended EXCEPT
                                   ![normalized].loads = @ + 1,
                                   ![normalized].modified = @ + 1]
           ELSE /\ injected' = injected
                /\ prepended' = [prepended EXCEPT ![normalized].loads = @ + 1]
  /\ loadCount' = loadCount + 1
  /\ UNCHANGED <<bPhase, bIndex, resolvedAssets, effects, disk, tempOutdir,
                 hooks, bError, generated,
                 BuildFrame>>

\* The onEnd callback (lines 605-609)
OnEnd ==
  /\ bPhase = "loading"
  /\ bPhase' = "ended"
  /\ tempOutdir' = FALSE
  /\ effects' = IF tempOutdir THEN Append(effects, Effect("rm", 0))
                ELSE effects
  /\ UNCHANGED <<bIndex, resolvedAssets, disk, hooks, injected, prepended,
                 loadCount, bError, generated,
                 BuildFrame>>

(***************************************************************************)
(* The startup block of a compiled executable (embed mode): extraction of  *)
(* the embedded payloads into the cache directory, then registration.      *)
(***************************************************************************)
\* path.join(cacheRoot, fingerprint) (line 393): fixed for one executable
CacheDir == <<"cache", "fp">>
CacheDirPath == Key("abs", CacheDir)

\* path.join(cacheDir, ...asset.relativePath.split("/")) (lines 398, 426)
EmbedOutputPath(asset) == Key("abs", ResolveSegs(CacheDir, asset.relativePath))

\* The data of an encoded manifest entry (line 312): the base64 of the bytes
\* of the source file, which are identified by its path.
AssetData(asset) == Base64(asset.sourcePath.segs)

\* What the URL parser does to one segment of a path: a space is encoded.
ParseSegment(seg) == IF seg = "my file" THEN "my%20file" ELSE seg

\* new URL(bunfsUrl).pathname of a bunfs-root key (lines 408-416), or
\* NoValue for any other key
BunfsPath(key) ==
  IF key.kind = "url" /\ IsBunfsPath(Key("abs", key.segs))
  THEN Key("abs", key.segs)
  ELSE IF IsBunfsPath(key)
       THEN Key("abs", [i \in DOMAIN key.segs |-> ParseSegment(key.segs[i])])
       ELSE NoValue

\* The keys of one entry of the encoded manifest (compileAssetsLiteral,
\* lines 313-328)
EncodedKeys(asset) ==
  Dedup(asset.runtimeKeys \o BunfsVariants(asset.runtimeKeys)
        \o <<asset.specifier, asset.sourcePath, asset.sourceUrl>>)

\* The files one executable may write: the outputs in the cache directory
\* and the bunfs-root paths of its keys.
WriteTargets(build) ==
  {EmbedOutputPath(build.assets[i]) : i \in DOMAIN build.assets}
  \cup ({BunfsPath(k) : k \in UNION {Range(EncodedKeys(build.assets[i]))
                                     : i \in DOMAIN build.assets}}
        \ {NoValue})

NeedsWriteAlways(files, target) == TRUE

\* !fs.existsSync(path) (lines 400 and 417)
NeedsWrite(files, target) == target \notin DOMAIN files

SwallowsNothing(op) == FALSE

\* Whether the failure of a file-system operation is caught and ignored:
\* each of them is in a try/catch (lines 394-396, 402, 404, 415-421).
Swallows(op) == op \in {"mkdirCache", "mkdirParent", "write", "bunfs"}

WriteAttempt(target, existed, ok) ==
  [path |-> target, existed |-> existed, ok |-> ok]

\* The state of an extraction: the files, the attempts to write a file, and
\* whether an error escaped.
Extraction(files, writes, raised) ==
  [files |-> files, writes |-> writes, raised |-> raised]

\* lines 394-396: the cache directory is created unless it exists
MakeCacheDir(x, failing) ==
  IF CacheDirPath \in DOMAIN x.files THEN x
  ELSE IF CacheDirPath \in failing
       THEN [x EXCEPT !.raised = ~Swallows("mkdirCache")]
       ELSE [x EXCEPT !.files = WriteFile(@, CacheDirPath, <<"dir">>)]

\* A file is written unless it exists: lines 400-405 for an output in the
\* cache directory (which must exist), lines 415-421 for a bunfs-root
\* path.  The writes that fail in this run are those of `failing`.
TryWrite(x, target, data, failing, op) ==
  IF x.raised \/ ~NeedsWrite(x.files, target) THEN x
  ELSE IF target \in failing
          \/ (op = "write" /\ CacheDirPath \notin DOMAIN x.files)
       THEN [x EXCEPT
               !.writes = Append(@, WriteAttempt(target,
                                                 target \in DOMAIN x.files,
                                                 FALSE)),
               !.raised = ~Swallows(op)]
       ELSE [x EXCEPT
               !.writes = Append(@, WriteAttempt(target,
                                                 target \in DOMAIN x.files,
                                                 TRUE)),
               !.files = WriteFile(@, target, FromBase64(data))]

\* The loop over the keys of one asset (lines 406-422)
RECURSIVE WriteBunfs(_, _, _, _)
WriteBunfs(x, keys, data, failing) ==
  IF keys = <<>> THEN x
  ELSE WriteBunfs(IF BunfsPath(Head(keys)) = NoValue THEN x
                  ELSE TryWrite(x, BunfsPath(Head(keys)), data, failing,
                                "bunfs"),
                  Tail(keys), data, failing)

\* The loop over encoded (lines 397-424), without its registerAll
RECURSIVE ExtractAll(_, _, _)
ExtractAll(x, assets, failing) ==
  IF assets = <<>> THEN x
  ELSE ExtractAll(
         WriteBunfs(TryWrite(x, EmbedOutputPath(Head(assets)),
                             AssetData(Head(assets)), failing, "write"),
                    EncodedKeys(Head(assets)), AssetData(Head(assets)),
                    failing),
         Tail(assets), failing)

\* The registerAll calls of the loop over encoded (line 423)
RECURSIVE RegisterEncoded(_, _)
RegisterEncoded(overrides, assets) ==
  IF assets = <<>> THEN overrides
  ELSE RegisterEncoded(registerAll(overrides, EncodedKeys(Head(assets)),
                                   EmbedOutputPath(Head(assets))),
                       Tail(assets))

RECURSIVE RegisterEmbedEntriesOverwriting(_, _)
RegisterEmbedEntriesOverwriting(overrides, assets) ==
  IF assets = <<>> THEN overrides
  ELSE RegisterEmbedEntriesOverwriting(
         [k \in DOMAIN overrides \cup Range(ManifestKeys(Head(assets))) |->
            IF k \in Range(ManifestKeys(Head(assets)))
            THEN EmbedOutputPath(Head(assets)) ELSE overrides[k]],
         Tail(assets))

\* The second loop, over entries (lines 425-428)
RECURSIVE RegisterEmbedEntries(_, _)
RegisterEmbedEntries(overrides, assets) ==
  IF assets = <<>> THEN overrides
  ELSE RegisterEmbedEntries(registerAll(overrides, ManifestKeys(Head(assets)),
                                        EmbedOutputPath(Head(assets))),
                            Tail(assets))

Launch(before, x, failing, fresh) ==
  [before |-> before, after |-> x.files, writes |-> x.writes,
   raised |-> x.raised, failing |-> failing, fresh |-> fresh]

\* cacheRoot (lines 335-337, 392): the extraction directory
CacheRoot == <<"cache">>

\* Assets whose relativePath setup derives from a targetName (lines 243-244):
\* one of targetName "../../up.txt", and one emitted at the relativePath of
\* the sample asset from another source file.
UpwardAsset ==
  ResolvedAssetOf(Key("bare", <<"up">>), <<"proj", "up.txt">>,
                  <<"..", "..", "up.txt">>, <<>>)
ClashingAsset ==
  ResolvedAssetOf(Key("bare", <<"clash">>), <<"proj", "other", "sample.txt">>,
                  <<"static", "sample.txt">>, <<>>)

\* The builds an executable is compiled from, all with the default
\* globalKey.
EmbedPrograms ==
  {b \in ProcessBuilds : b.globalKey = "__bundleAssets"}
  \cup { [globalKey |-> "__bundleAssets", assets |-> <<UpwardAsset>>],
         [globalKey |-> "__bundleAssets",
          assets |-> <<CHOOSE a \in Assets : a.specifier = SampleKey,
                       ClashingAsset>>] }

\* The two launches that run the extraction step concurrently.
Racers == {1, 2}

Racer(job, step, raised, filled) ==
  [job |-> job, step |-> step, raised |-> raised, filled |-> filled]

NoRace == [p \in Racers |-> Racer(0, "idle", FALSE, {})]

StartInit ==
  /\ program \in EmbedPrograms
  /\ onDisk = NoDisk
  /\ launches = <<>>
  /\ racers = NoRace

StartIdle ==
  /\ program = NoBuild
  /\ onDisk = NoDisk
  /\ launches = <<>>
  /\ racers = NoRace

\* The startup block of the executable runs (lines 341-589, compile mode):
\* extraction, registration, merge, patches, helper.  An error that escapes
\* ends the block where it is raised, before the merge.
RunEmbedBlock ==
  /\ Len(launches) < MaxLaunches
  /\ \E failing \in SUBSET ({CacheDirPath} \cup WriteTargets(program)) :
       LET x == ExtractAll(MakeCacheDir(Extraction(onDisk, <<>>, FALSE),
                                        failing),
                           program.assets, failing)
       IN  /\ onDisk' = x.files
           /\ launches' = Append(launches,
                                 Launch(onDisk, x, failing, lastBlock = NoBuild))
           /\ IF x.raised
              THEN /\ lastCall.stage \in {"none", "pending"}
                   /\ UNCHANGED runtimeVars
              ELSE BlockRuns(program,
                             RegisterEmbedEntries(
                               RegisterEncoded(EmptyTable, program.assets),
                               program.assets))
  /\ UNCHANGED <<program, racers, emitVars, resolveVars, buildVars>>

\* The process ends; the files stay.
ExitProcess ==
  /\ lastBlock # NoBuild
  /\ globals' = [g \in GlobalKeys |-> NoTable]
  /\ resolversInstalled' = FALSE
  /\ resolveSync' = <<>>
  /\ resolveAsync' = <<>>
  /\ metaResolve' = <<>>
  /\ helper' = NoHelper
  /\ lastBlock' = NoBuild
  /\ lastCall' = NoCall
  /\ UNCHANGED <<startVars, emitVars, resolveVars, buildVars>>

(***************************************************************************)
(* Two concurrent first launches of one executable: the extraction step of *)
(* each (lines 394-422) runs one file-system call at a time, and the calls *)
(* of the two interleave.  No lock is taken.                               *)
(***************************************************************************)
Job(target, data, op) == [target |-> target, data |-> data, op |-> op]

\* The bunfs-root writes of one asset (lines 406-422), one per key that has
\* a bunfs-root path
RECURSIVE BunfsJobs(_, _)
BunfsJobs(keys, data) ==
  IF keys = <<>> THEN <<>>
  ELSE (IF BunfsPath(Head(keys)) = NoValue THEN <<>>
        ELSE <<Job(BunfsPath(Head(keys)), data, "bunfs")>>)
       \o BunfsJobs(Tail(keys), data)

\* The files the loop over encoded writes unless they exist (lines 397-424),
\* in its order
RECURSIVE ExtractionJobs(_)
ExtractionJobs(assets) ==
  IF assets = <<>> THEN <<>>
  ELSE <<Job(EmbedOutputPath(Head(assets)), AssetData(Head(assets)), "write")>>
       \o BunfsJobs(EncodedKeys(Head(assets)), AssetData(Head(assets)))
       \o ExtractionJobs(Tail(assets))

WriteContentAppends(old, data) == old \o data

\* fs.writeFileSync(path, buffer) (lines 404, 419) once the file is open:
\* the buffer is written from the start of the file.
WriteContent(old, data) == data

\* The racer goes on to its next file, or is done with the extraction; an
\* error that escaped ends its block.
NextJob(r) ==
  IF r.raised \/ r.job + 1 > Len(ExtractionJobs(program.assets))
  THEN [r EXCEPT !.step = "done"]
  ELSE [r EXCEPT !.job = @ + 1, !.step = "check"]

RaceInit ==
  /\ program \in EmbedPrograms
  /\ onDisk = NoDisk
  /\ launches = <<>>
  /\ racers = [p \in Racers |-> Racer(0, "cache", FALSE, {})]

RaceFrame == <<program, launches, emitVars, runtimeVars, resolveVars, buildVars>>

\* fs.existsSync(cacheDir) (line 395)
RaceCheckCacheDir(p) ==
  /\ racers[p].step = "cache"
  /\ racers' = [racers EXCEPT ![p] =
                  IF CacheDirPath \in DOMAIN onDisk THEN NextJob(@)
                  ELSE [@ EXCEPT !.step = "mkcache"]]
  /\ UNCHANGED <<onDisk, RaceFrame>>

\* fs.mkdirSync(cacheDir, { recursive: true }) (line 395): it succeeds, also
\* when the other launch has made the directory meanwhile, or it fails.
RaceMakeCacheDir(p) ==
  /\ racers[p].step = "mkcache"
  /\ \E ok \in BOOLEAN :
       /\ onDisk' = IF ok THEN WriteFile(onDisk, CacheDirPath, <<"dir">>)
                    ELSE onDisk
       /\ racers' = [racers EXCEPT ![p] =
                       NextJob([@ EXCEPT !.raised =
                                  ~ok /\ ~Swallows("mkdirCache")])]
  /\ UNCHANGED RaceFrame

\* fs.existsSync(outputPath) (line 400), fs.existsSync(bunfsPath) (line 417)
RaceCheckFile(p) ==
  /\ racers[p].step = "check"
  /\ racers' = [racers EXCEPT ![p] =
                  IF NeedsWrite(onDisk,
                                ExtractionJobs(program.assets)[@.job].target)
                  THEN [@ EXCEPT !.step = "open"]
                  ELSE NextJob(@)]
  /\ UNCHANGED <<onDisk, RaceFrame>>

\* The directories are made and the file is opened for writing, which
\* empties it (lines 402-404, 418-419), or one of the calls fails.
RaceOpenFile(p) ==
  /\ racers[p].step = "open"
  /\ LET job == ExtractionJobs(program.assets)[racers[p].job]
     IN  \E ok \in BOOLEAN :
           /\ onDisk' = IF ok
                        THEN WriteFile(IF job.op = "write"
                                       THEN WriteFile(onDisk, CacheDirPath,
                                                      <<"dir">>)
                                       ELSE onDisk,
                                       job.target, <<>>)
                        ELSE onDisk
           /\ racers' = [racers EXCEPT ![p] =
                           IF ok THEN [@ EXCEPT !.step = "fill"]
                           ELSE NextJob([@ EXCEPT !.raised =
                                           ~Swallows(job.op)])]
  /\ UNCHANGED RaceFrame

\* The buffer is written into the open file.
RaceFillFile(p) ==
  /\ racers[p].step = "fill"
  /\ LET job == ExtractionJobs(program.assets)[racers[p].job]
     IN  /\ onDisk' = WriteFile(onDisk, job.target,
                                WriteContent(onDisk[job.target],
                                             FromBase64(job.data)))
         /\ racers' = [racers EXCEPT ![p] =
                         NextJob([@ EXCEPT !.filled = @ \cup {job.target}])]
  /\ UNCHANGED RaceFrame

(***************************************************************************)
(* Specifications.                                                         *)
(***************************************************************************)
\* One process executing the startup blocks of several builds, with
\* resolution calls in between.
Init == RuntimeInit /\ EmitIdle /\ ResolveIdle /\ BuildIdle /\ StartIdle

RunProcessBlock ==
  /\ Len(metaResolve) < MaxBlocks
  /\ \E build \in ProcessBuilds : RunBlock(build)

Next ==
  \/ RunProcessBlock
  \/ CallResolveSync
  \/ CallResolve
  \/ SettleResolve
  \/ CallMetaResolve
  \/ CallHelper
  \/ Return

Spec == Init /\ [][Next]_vars

\* A fresh process executing the startup block of one build.
RunOnlyBlock ==
  /\ lastBlock = NoBuild
  /\ \E build \in Builds : RunBlock(build)

NextOneBuild ==
  \/ RunOnlyBlock
  \/ CallResolveSync
  \/ CallResolve
  \/ SettleResolve
  \/ CallMetaResolve
  \/ CallHelper
  \/ Return

SpecOneBuild == Init /\ [][NextOneBuild]_vars

\* A fresh process executing the startup block of one build, and
\* application code using the helper.
NextHelper ==
  \/ RunOnlyBlock
  \/ CallHelperWith
  \/ DropTable
  \/ Return

SpecHelper == Init /\ [][NextHelper]_vars

\* A fresh process executing the startup block of a build in which a key of
\* one asset denotes a location of another.
RunOverlapBlock ==
  /\ lastBlock = NoBuild
  /\ \E build \in OverlapBuilds : RunBlock(build)

NextOverlap ==
  \/ RunOverlapBlock
  \/ CallResolveSync
  \/ CallResolve
  \/ SettleResolve
  \/ CallMetaResolve
  \/ CallHelper
  \/ Return

SpecOverlap == Init /\ [][NextOverlap]_vars

\* The naming and copy-mode materialization of one asset.
InitEmit == EmitInit /\ RuntimeIdle /\ ResolveIdle /\ BuildIdle /\ StartIdle

NextEmit ==
  \/ NameAsset
  \/ WriteAsset
  \/ StartModule

SpecEmit == InitEmit /\ [][NextEmit]_vars

\* The resolution of one specifier.
InitResolve ==
  ResolveInit /\ RuntimeIdle /\ EmitIdle /\ BuildIdle /\ StartIdle

NextResolve ==
  \/ TryDirect
  \/ TryCwd
  \/ TryDir
  \/ HostWithParent
  \/ HostNoParent
  \/ CwdFallback
  \/ FinishResolve

SpecResolve == InitResolve /\ [][NextResolve]_vars

\* One build, from the plugin's options to onEnd.
InitBuild ==
  BuildInit /\ RuntimeIdle /\ EmitIdle /\ ResolveIdle /\ StartIdle

NextBuild ==
  \/ Construct
  \/ CheckConfig
  \/ ResolveAsset
  \/ PrepareOutput
  \/ MaterializeAsset
  \/ RegisterHooks
  \/ OnLoad
  \/ OnEnd

SpecBuild == InitBuild /\ [][NextBuild]_vars

\* A compiled executable launched again and again on one file system.
InitExtract ==
  StartInit /\ RuntimeInit /\ EmitIdle /\ ResolveIdle /\ BuildIdle

NextExtract ==
  \/ RunEmbedBlock
  \/ ExitProcess

SpecExtract == InitExtract /\ [][NextExtract]_vars

\* Two launches of one executable race through the extraction step.
InitRace == RaceInit /\ RuntimeIdle /\ EmitIdle /\ ResolveIdle /\ BuildIdle

NextRace ==
  \/ \E p \in Racers : RaceCheckCacheDir(p)
  \/ \E p \in Racers : RaceMakeCacheDir(p)
  \/ \E p \in Racers : RaceCheckFile(p)
  \/ \E p \in Racers : RaceOpenFile(p)
  \/ \E p \in Racers : RaceFillFile(p)

SpecRace == InitRace /\ [][NextRace]_vars

(***************************************************************************)
(* Claims about naming and materialization (SpecEmit).                     *)
(***************************************************************************)
IsPrefix(a, b) == Len(a) <= Len(b) /\ SubSeq(b, 1, Len(a)) = a

\* C1: the emitted relativePath holds only characters of [A-Za-z0-9._-] and
\* "/", and none of its "/"-separated segments is "..".
C1_RelativePathSafe ==
  ePhase \in {"named", "written"} =>
    /\ \A i \in DOMAIN relativePath : relativePath[i] \in AllowedChars \cup {"/"}
    /\ \A seg \in Range(SplitSlash(relativePath, <<>>)) : seg # DotDot

\* C2: in copy mode the path an asset is written at lies inside the output
\* root, whatever the targetName.
C2_WriteInsideOutputRoot ==
  ePhase = "written" => IsPrefix(EmissionRoot, targetPath)

(***************************************************************************)
(* Claims about one build's block in a fresh process (SpecOneBuild).       *)
(***************************************************************************)
FinishedCall ==
  /\ lastCall.stage \in {"returned", "settled"}
  /\ lastCall.prim \in {"resolveSync", "resolve", "metaResolve"}

\* The least of a set of positions, or 0 when there is none.
FirstOf(positions) ==
  IF positions = {} THEN 0
  ELSE CHOOSE i \in positions : \A j \in positions : i <= j

\* Every string an asset registers: its output path, the URL of it, its
\* manifest keys, and the variants of all of these.
RegisteredBy(asset) ==
  UNION {Variants(k) : k \in {OutputPath(asset), pathToFileURL(OutputPath(asset))}
                              \cup Range(ManifestKeys(asset))}

\* What a lookup of key returns once the block has run: through findOverride
\* (which the helper and the patched primitives call), and in the last call
\* made through the helper or a patched primitive.
LooksUpTo(key, value) ==
  /\ findOverride(lastBlock.globalKey, key) = value
  /\ (lastCall.stage = "returned" /\ lastCall.layers # <<>>
        /\ lastCall.specifier = key)
       => lastCall.result.val = value

\* C3 as stated: a runtimeKeys entry that two assets of the build declare
\* looks up to the output path of the first asset that declares it.
C3_FirstDeclarerWins ==
  lastBlock # NoBuild =>
    \A i \in DOMAIN lastBlock.assets :
      \A key \in Range(lastBlock.assets[i].runtimeKeys) :
        LET first == FirstOf({j \in DOMAIN lastBlock.assets :
                                key \in Range(lastBlock.assets[j].runtimeKeys)})
        IN  first < i => LooksUpTo(key, OutputPath(lastBlock.assets[first]))

\* C3 as amended: every key of the table looks up to the output path of the
\* first asset of the list that registers it in any form.
C3_FirstRegistrationWins ==
  lastBlock # NoBuild =>
    \A key \in DOMAIN globals[lastBlock.globalKey].map :
      LET first == FirstOf({j \in DOMAIN lastBlock.assets :
                              key \in RegisteredBy(lastBlock.assets[j])})
      IN  first # 0 /\ LooksUpTo(key, OutputPath(lastBlock.assets[first]))

\* Three assets, the second and third declaring the alias in runtimeKeys, and
\* the alias looked up through a patched primitive.
C3_Witness ==
  /\ Len(lastBlock.assets) = 3
  /\ \A i \in {2, 3} : SharedAlias \in Range(lastBlock.assets[i].runtimeKeys)
  /\ OutputPath(lastBlock.assets[2]) # OutputPath(lastBlock.assets[3])
  /\ lastCall.prim = "resolveSync"
  /\ lastCall.specifier = SharedAlias
  /\ lastCall.result.orig = 0

(***************************************************************************)
(* Claims about several blocks in one process (Spec).                      *)
(***************************************************************************)
\* C4: the merge keeps every entry already in the process-global table: a key
\* that has a value keeps it, and the table is never reset.
C4_MergePreservesEntries ==
  [][\A g \in GlobalKeys :
       /\ globals[g].present => globals'[g].present
       /\ \A key \in DOMAIN globals[g].map :
            /\ key \in DOMAIN globals'[g].map
            /\ globals'[g].map[key] = globals[g].map[key]]_vars

\* C5: a call whose specifier is found in the override table returns the
\* override at once, without the host's original being invoked; an
\* asynchronous call left pending was a miss when it was made.
C5_DirectHitSkipsOriginal ==
  /\ (FinishedCall /\ lastCall.stage = "returned" /\ lastCall.layers # <<>>
        /\ findOverride(Head(lastCall.layers), lastCall.specifier) # NoValue)
       => /\ lastCall.result.kind = "ret"
          /\ lastCall.result.val =
               findOverride(Head(lastCall.layers), lastCall.specifier)
          /\ lastCall.result.orig = 0
  /\ (lastCall.stage = "pending" /\ ~lastCall.grown /\ lastCall.layers # <<>>)
       => findOverride(Head(lastCall.layers), lastCall.specifier) = NoValue

C5_Witness ==
  /\ FinishedCall
  /\ lastCall.prim = "resolve"
  /\ lastCall.layers # <<>>
  /\ lastCall.outcome.kind = "raise"
  /\ lastCall.result.kind = "ret"
  /\ lastCall.result.orig = 0

\* The last call missed the table: neither its specifier nor what the
\* original returned is found.
CallMissed ==
  /\ FinishedCall
  /\ lastCall.layers # <<>>
  /\ findOverride(Head(lastCall.layers), lastCall.specifier) = NoValue
  /\ lastCall.outcome.kind = "ret"
       => findOverride(Head(lastCall.layers), lastCall.outcome.val) = NoValue

\* C6: on a miss a patched primitive returns exactly what the original
\* returned, or propagates exactly the original's failure, and no resolution
\* call changes the override table.
C6_MissFallsThrough ==
  /\ [](CallMissed =>
          /\ lastCall.result.kind = lastCall.outcome.kind
          /\ lastCall.result.val = lastCall.outcome.val
          /\ lastCall.result.orig = 1)
  /\ [][(lastCall' # lastCall /\ Len(metaResolve') = Len(metaResolve))
          => globals' = globals]_vars

C6_Witness ==
  /\ CallMissed
  /\ lastCall.prim = "resolve"
  /\ lastCall.outcome.kind = "raise"
  /\ lastCall.result.kind = "raise"

\* C7: each primitive is wrapped at most once however many blocks execute, a
\* call that misses reaches the host's original exactly once through at most
\* one wrapper, and the installed flag is never cleared.
C7_InstalledOnce ==
  /\ [](/\ Len(resolveSync) <= 1
        /\ Len(resolveAsync) <= 1
        /\ \A m \in DOMAIN metaResolve : Len(metaResolve[m]) <= 1
        /\ Len(metaResolve) > 0 => resolversInstalled
        /\ FinishedCall => /\ lastCall.result.wrappers <= 1
                           /\ lastCall.result.orig <= 1
        /\ CallMissed => lastCall.result.orig = 1)
  /\ [][resolversInstalled => resolversInstalled']_vars

C7_Witness ==
  /\ Len(metaResolve) = MaxBlocks
  /\ resolversInstalled
  /\ Len(resolveSync) = 1
  /\ CallMissed
  /\ lastCall.prim = "resolveSync"
  /\ lastCall.result.orig = 1
  /\ lastCall.result.wrappers = 1

\* C8, for the two process-global primitives: a key that some block
\* registered, under whatever globalKey, resolves to an override registered
\* for it and not through the host's original.
C8_EveryBuildReachable ==
  (lastCall.stage = "returned" /\ lastCall.prim \in {"resolveSync", "resolve"})
    => \A g \in GlobalKeys :
         lastCall.specifier \in DOMAIN globals[g].map
           => /\ lastCall.result.orig = 0
              /\ lastCall.result.val \in
                   {globals[h].map[lastCall.specifier] :
                      h \in {x \in GlobalKeys :
                               lastCall.specifier \in DOMAIN globals[x].map}}

(***************************************************************************)
(* Claims about the resolution of a specifier (SpecResolve).               *)
(***************************************************************************)
Succeeded(e) == e.op = "exists" /\ e.ok

C10_HostOnlyForBare ==
  \A i \in DOMAIN events :
    events[i].op = "host" => rInput.specifier.kind = "bare"

\* C10 as amended: whatever the specifier's syntax, the host's resolution is
\* called exactly when the existence checks made before it all failed (once
\* per entrypoint in order until a match, then once with no parent), and
\* never after a check has succeeded.
C10_HostWheneverUnmatched ==
  /\ \A i, j \in DOMAIN events :
       (i < j /\ events[j].op = "host") => ~Succeeded(events[i])
  /\ rPhase \in {"fallback", "finish", "found", "notfound"} =>
       LET directHit == \E i \in DOMAIN events :
                          events[i].rank <= 3 /\ Succeeded(events[i])
           hostCalls == {i \in DOMAIN events : events[i].op = "host"}
       IN  /\ directHit <=> hostCalls = {}
           /\ \A i \in hostCalls :
                /\ events[i].idx \in 0..Len(rInput.dirs)
                /\ \A j \in hostCalls : i < j =>
                     events[i].idx # 0 /\
                     (events[j].idx = 0 \/ events[i].idx < events[j].idx)

C10_Witness ==
  /\ rPhase = "notfound"
  /\ rInput.specifier.kind = "rel"
  /\ Len(rInput.dirs) = 2
  /\ Cardinality({i \in DOMAIN events : events[i].op = "host"}) = 3

(***************************************************************************)
(* Claims about the order of resolution and its failure (SpecResolve).     *)
(***************************************************************************)
\* An existence check relative to the working directory or to an entrypoint
\* directory: strategies 2, 3 and 6 (lines 207, 210 and 230).
IsDirectoryCheck(e) == e.op = "exists" /\ e.rank \in {2, 3, 6}

\* C11: resolution starts with the host's resolve primitive: every existence
\* check relative to the working directory or an entrypoint directory comes
\* after a call of the host's resolve primitive, and after one that failed.
C11_HostBeforeDirectoryChecks ==
  \A i \in DOMAIN events :
    IsDirectoryCheck(events[i]) =>
      \E j \in 1..(i - 1) : events[j].op = "host" /\ ~events[j].ok

\* The existence checks made so far, as positions in the event log.
ExistenceChecks == {i \in DOMAIN events : events[i].op = "exists"}

\* The calls of the host's resolve primitive that raised.
HostFailures == {i \in DOMAIN events : events[i].op = "host" /\ ~events[i].ok}

\* C12: when no strategy finds a file, the NotFound error lists every path an
\* existence check was made on, each exactly once, no path was checked
\* twice, and it lists the error of every call of the host resolver that
\* raised.
C12_NotFoundListsEverything ==
  rPhase = "notfound" =>
    /\ thrown.kind = "NotFound"
    /\ Range(thrown.checked) = {events[i].path : i \in ExistenceChecks}
    /\ \A i, j \in DOMAIN thrown.checked :
         thrown.checked[i] = thrown.checked[j] => i = j
    /\ \A i, j \in ExistenceChecks :
         events[i].path = events[j].path => i = j
    /\ \A i \in HostFailures :
         \E k \in DOMAIN thrown.errors :
           thrown.errors[k] =
             ResolverError("host", events[i].rank, events[i].idx)
    /\ Cardinality({k \in DOMAIN thrown.errors : thrown.errors[k].op = "host"})
         = Cardinality(HostFailures)

\* A failed resolution that checked two paths and saw the host raise, and
\* in which a second check of an already attempted path was skipped.
C12_Witness ==
  /\ rPhase = "notfound"
  /\ Len(thrown.checked) >= 2
  /\ HostFailures # {}
  /\ rInput.specifier.kind = "rel"
  /\ Cwd \in Range(rInput.dirs)

(***************************************************************************)
(* Claims about one build (SpecBuild).                                     *)
(***************************************************************************)
\* The position of the first asset no strategy locates, or 0.
FirstUnresolved ==
  FirstOf({i \in DOMAIN config.assets : ~config.assets[i].located})

\* Nothing of the build's output exists: no file written, no payload
\* embedded, no temporary directory, no hook registered.
NoOutputYet ==
  /\ disk = NoDisk
  /\ \A i \in DOMAIN resolvedAssets : resolvedAssets[i].base64 = <<>>
  /\ ~tempOutdir
  /\ ~hooks
  /\ \A i \in DOMAIN effects : effects[i].op = "resolve"

\* C13: when an asset of the list cannot be resolved, the build aborts at the
\* first such asset: no later asset is resolved, and no file is written, no
\* payload embedded, no temporary directory created and no hook registered.
C13_AbortsAtFirstUnresolved ==
  FirstUnresolved # 0 =>
    /\ NoOutputYet
    /\ \A i \in DOMAIN effects : effects[i].at <= FirstUnresolved
    /\ bPhase \in {"construct", "setup", "resolve", "failed"}
    /\ (bPhase = "failed" /\ bError = "NotFound") =>
         Len(effects) = FirstUnresolved

\* A build whose second asset is the one that cannot be resolved has failed.
C13_Witness ==
  /\ bPhase = "failed"
  /\ bError = "NotFound"
  /\ Len(resolvedAssets) = 1
  /\ ~isCompile(config)

\* The four configuration errors, as the claim lists them.
IsMisconfigured(cfg) ==
  \/ cfg.assets = <<>>
  \/ cfg.extractionDir = "relative"
  \/ cfg.target = "browser"
  \/ (cfg.compile \in {"undefined", "false"} /\ ~cfg.outdir)

\* C14: every configuration error is raised before any resolution work: a
\* misconfigured build checks no file, calls no host resolution, writes
\* nothing, and ends in a configuration error.
C14_ConfigErrorsBeforeWork ==
  IsMisconfigured(config) =>
    /\ effects = <<>>
    /\ NoOutputYet
    /\ bPhase \in {"construct", "setup", "failed"}
    /\ bPhase = "failed" =>
         bError \in {"emptyAssets", "browser", "extractionDir", "noOutput"}

\* A build with assets, failed for its browser target before any work.
C14_Witness ==
  /\ bPhase = "failed"
  /\ bError = "browser"
  /\ config.assets # <<>>
  /\ config.outdir

\* An output-file path is configured, at the top level or under compile.
HasOutfile(cfg) == cfg.outfile \/ cfg.compile = "outfile"

\* C15: outside embed mode the build fails with the missing-output error
\* exactly when neither an output directory nor an output-file path is
\* configured; with only an output-file path the copy-mode build proceeds.
C15_OutfileSufficesForCopyMode ==
  /\ bError = "noOutput" => (~config.outdir /\ ~HasOutfile(config))
  /\ ( /\ config.compile \in {"undefined", "false"}
       /\ ~config.outdir /\ ~HasOutfile(config)
       /\ config.assets # <<>> /\ config.target # "browser"
       /\ config.extractionDir # "relative"
       /\ bPhase \notin {"construct", "setup"} )
     => bError = "noOutput"
  /\ (bPhase = "ended" /\ ~config.outdir /\ HasOutfile(config)) =>
       \A i \in DOMAIN resolvedAssets :
         \E k \in DOMAIN effects : effects[k] = Effect("write", i)

\* C16: over any sequence of onLoad invocations, the block is prepended only
\* to configured entrypoints, and to each at most once.
C16_InjectsEntrypointsOnce ==
  \A p \in DOMAIN prepended :
    /\ prepended[p].modified <= 1
    /\ prepended[p].modified > 0 => p \in entrypointAbsPaths(config)

\* An entrypoint loaded twice and a file that is no entrypoint loaded once.
C16_Witness ==
  /\ prepended[<<"proj", "app.ts">>].loads >= 2
  /\ prepended[<<"proj", "app.ts">>].modified = 1
  /\ prepended[<<"proj", "lib.ts">>].loads >= 1

\* C20: after a copy-mode build, the file at outputRoot/relativePath of every
\* asset has the bytes of that asset's source file.
C20_CopyRoundTrip ==
  (bPhase \in {"loading", "ended"} /\ ~isCompile(config)) =>
    \A i \in DOMAIN resolvedAssets :
      /\ TargetPathOf(resolvedAssets[i].relativePath) \in DOMAIN disk
      /\ disk[TargetPathOf(resolvedAssets[i].relativePath)]
           = resolvedAssets[i].bytes

(***************************************************************************)
(* Claims about extraction at startup (SpecExtract).                       *)
(***************************************************************************)
\* The writes of a run that succeeded.
FilesWritten(launch) ==
  {launch.writes[i].path : i \in {j \in DOMAIN launch.writes :
                                    launch.writes[j].ok}}

ProgramKeys ==
  UNION {Range(ManifestKeys(program.assets[i])) : i \in DOMAIN program.assets}

\* C18: whatever fails in the extraction (the creation of the cache
\* directory, any write), the block raises nothing and runs to its end:
\* every manifest key is registered in the override table, the patches and
\* the helper are installed.
C18_ExtractionFailuresSwallowed ==
  [][Len(launches') > Len(launches) =>
       /\ ~launches'[Len(launches')].raised
       /\ lastBlock' = program
       /\ globals'[program.globalKey].present
       /\ ProgramKeys \subseteq DOMAIN globals'[program.globalKey].map
       /\ resolversInstalled'
       /\ resolveSync' # <<>>
       /\ resolveAsync' # <<>>
       /\ metaResolve' # <<>> /\ metaResolve'[1] # <<>>
       /\ helper'.installed]_vars

\* A block that ran to its end although the cache directory could not be
\* created and no file was written.
C18_Witness ==
  /\ Len(launches) = 1
  /\ CacheDirPath \in launches[1].failing
  /\ launches[1].writes # <<>>
  /\ FilesWritten(launches[1]) = {}
  /\ lastBlock = program
  /\ helper.installed

(***************************************************************************)
(* Claims about the helper (SpecHelper).                                   *)
(***************************************************************************)
\* The other form of a path or a file URL.
OtherForm(key) ==
  IF key.kind = "url" THEN fileURLToPath(key) ELSE pathToFileURL(key)

\* What the claim says the helper returns for an argument, given the table:
\* the registered path for a key of the table or for the other form of one,
\* null otherwise.
HelperShouldReturn(table, argument) ==
  IF ~table.present \/ ~IsString(argument) THEN NoValue
  ELSE IF argument \in DOMAIN table.map THEN table.map[argument]
  ELSE IF argument.kind \in {"url", "abs"}
          /\ OtherForm(argument) \in DOMAIN table.map
       THEN table.map[OtherForm(argument)]
       ELSE NoValue

\* C19: the helper never raises; for a key of the override table, given
\* directly or in its other path/URL form, it returns the registered output
\* path; for a specifier absent from the table, a non-string argument or a
\* missing table it returns null.
C19_HelperTotal ==
  (lastCall.prim = "helper" /\ lastCall.stage = "returned") =>
    /\ lastCall.result.kind = "ret"
    /\ lastCall.result.val =
         HelperShouldReturn(globals[helper.globalKey], lastCall.specifier)
    /\ lastCall.result.val # NoValue =>
         \E i \in DOMAIN lastBlock.assets :
           lastCall.result.val = OutputPath(lastBlock.assets[i])

\* The helper returned a registered path for a URL that is no key itself.
C19_Witness ==
  /\ lastCall.prim = "helper"
  /\ lastCall.stage = "returned"
  /\ lastCall.specifier = Key("url", <<"proj", "my file">>)
  /\ lastCall.specifier \notin DOMAIN globals[helper.globalKey].map
  /\ lastCall.result.val = Key("abs", <<"dist", "my-file">>)

(***************************************************************************)
(* Claims about the path registered at run time (SpecEmit).                *)
(***************************************************************************)
\* C21: in copy mode the output path the startup block registers for an
\* asset is the path the build wrote the asset at, whatever the layout of
\* the entrypoints.
C21_RuntimePathIsWritePath ==
  ePhase = "started" => outputPath = targetPath

(***************************************************************************)
(* Claims about the paths a compiled executable hands out (SpecExtract).   *)
(***************************************************************************)
\* C22: after a compiled executable has started from an empty cache with no
\* write failing, every path of the override table lies under the
\* extraction directory and names an existing file, and the path registered
\* for an asset's source path holds the bytes of that source file.
C22_ExtractedUnderExtractionDir ==
  ( /\ lastBlock # NoBuild
    /\ launches # <<>>
    /\ launches[Len(launches)].before = NoDisk
    /\ launches[Len(launches)].failing = {} )
  => LET table == globals[program.globalKey].map
     IN  /\ \A k \in DOMAIN table :
              /\ IsPrefix(CacheRoot, table[k].segs)
              /\ table[k] \in DOMAIN onDisk
         /\ \A i \in DOMAIN program.assets :
              LET asset == program.assets[i]
              IN  /\ asset.sourcePath \in DOMAIN table
                  /\ table[asset.sourcePath] \in DOMAIN onDisk
                  /\ onDisk[table[asset.sourcePath]] = asset.sourcePath.segs

(***************************************************************************)
(* Claims about concurrent first launches (SpecRace).                      *)
(***************************************************************************)
RaceFinished == \A p \in Racers : racers[p].step = "done"

HeldFor(table, value) ==
  IF ~table.present THEN NoValue
  ELSE IF value \in DOMAIN table.map THEN table.map[value]
  ELSE IF value.kind \in {"url", "abs"} /\ OtherForm(value) \in DOMAIN table.map
       THEN table.map[OtherForm(value)]
       ELSE NoValue

\* C24: when the specifier of a call to a patched primitive is no override
\* key and the value the host's original returns is one, as a path or as a
\* file URL, the call returns the override registered for that value, having
\* invoked the original once; when the specifier is an override key, the
\* call returns the specifier's override whatever the original would return.
C24_OverrideByResolvedValue ==
  (FinishedCall /\ lastCall.layers # <<>>) =>
    LET table == globals[Head(lastCall.layers)]
        bySpecifier == HeldFor(table, lastCall.specifier)
        byResolved == HeldFor(table, lastCall.outcome.val)
    IN  /\ (bySpecifier = NoValue /\ lastCall.outcome.kind = "ret"
              /\ byResolved # NoValue)
             => /\ lastCall.result.kind = "ret"
                /\ lastCall.result.val = byResolved
                /\ lastCall.result.orig = 1
        /\ bySpecifier # NoValue
             => /\ lastCall.result.kind = "ret"
                /\ lastCall.result.val = bySpecifier

\* A call whose specifier is no key got the output path registered for the
\* file URL the original returned.
C24_Witness ==
  /\ FinishedCall
  /\ lastCall.layers # <<>>
  /\ HeldFor(globals[Head(lastCall.layers)], lastCall.specifier) = NoValue
  /\ lastCall.outcome.kind = "ret"
  /\ lastCall.outcome.val.kind = "url"
  /\ lastCall.result.val # lastCall.outcome.val
  /\ lastCall.result.val = HeldFor(globals[Head(lastCall.layers)],
                                   lastCall.outcome.val)

(***************************************************************************)
(* Claims about relative and bare specifiers (SpecResolve).                *)
(***************************************************************************)
ResolutionOver == rPhase \in {"found", "notfound"}

\* The positions of the entrypoint directories under which the specifier
\* names an existing file.
DirsWithFile ==
  {i \in DOMAIN rInput.dirs :
     PathResolve(rInput.dirs[i], rInput.specifier) \in rInput.fs}

\* C25: for a specifier beginning with "./" or "../", a file under the
\* working directory is the one resolved, whatever lies under the entrypoint
\* directories; without one, the file under the earliest entrypoint
\* directory that has it is resolved, and the resolution succeeds.
C25_CwdThenEntrypointDirs ==
  (ResolutionOver /\ rInput.specifier.kind \in {"rel", "up"}) =>
    IF PathResolve(Cwd, rInput.specifier) \in rInput.fs
    THEN rPhase = "found" /\ sourcePath = PathResolve(Cwd, rInput.specifier)
    ELSE DirsWithFile # {} =>
           /\ rPhase = "found"
           /\ \E i \in DirsWithFile :
                /\ \A j \in DirsWithFile : i <= j
                /\ sourcePath = PathResolve(rInput.dirs[i], rInput.specifier)

\* A "../" specifier was resolved under the second entrypoint directory,
\* the file being neither under the working directory nor under the first.
C25_Witness ==
  /\ rPhase = "found"
  /\ rInput.specifier.kind = "up"
  /\ PathResolve(Cwd, rInput.specifier) \notin rInput.fs
  /\ DirsWithFile = {2}
  /\ sourcePath = PathResolve(rInput.dirs[2], rInput.specifier)

\* No file was matched through the host's resolution, with or without a
\* parent.
HostMatchedNothing ==
  \A i \in DOMAIN events : events[i].rank \in {4, 5} => ~Succeeded(events[i])

\* C26: a bare specifier that the host resolves to no file, in any parent
\* context or without one, is resolved exactly if a file exists at it below
\* the working directory, and then to that path; for a file URL or an
\* absolute path no existence check is made by the fallback.
C26_BareCwdFallback ==
  /\ (ResolutionOver /\ rInput.specifier.kind = "bare" /\ HostMatchedNothing)
       => /\ rPhase = "found" <=> (Cwd \o rInput.specifier.segs) \in rInput.fs
          /\ rPhase = "found" => sourcePath = Cwd \o rInput.specifier.segs
  /\ rInput.specifier.kind \in {"url", "abs"}
       => \A i \in DOMAIN events : events[i].rank # 6

\* A bare specifier for which the host threw with both parents and with
\* none was found below the working directory by the fallback.
C26_Witness ==
  /\ rPhase = "found"
  /\ rInput.specifier.kind = "bare"
  /\ Len(rInput.dirs) = 2
  /\ Len(resolutionErrors) = 3
  /\ events[Len(events)].rank = 6
  /\ Succeeded(events[Len(events)])

(***************************************************************************)
(* Claims about the keys of one asset (SpecOneBuild).                      *)
(***************************************************************************)
\* The two bunfs-root forms of a key: /$bunfs/root/<rest> and its file URL.
BunfsForms(key) ==
  { Key("abs", <<"$bunfs", "root">> \o key.segs),
    Key("url", <<"$bunfs", "root">> \o key.segs) }

\* C27: once the block of a build with a single asset has run, the override
\* table maps to the asset's output path: that path, its file URL, the
\* specifier, the source path, the source URL, every runtimeKeys entry and
\* the two bunfs-root forms of every runtimeKeys entry starting with "./";
\* it holds no bunfs-root form of any other runtimeKeys entry.
C27_SingleAssetKeys ==
  (lastBlock # NoBuild /\ Len(lastBlock.assets) = 1) =>
    LET asset == lastBlock.assets[1]
        table == globals[lastBlock.globalKey].map
        out == Key("abs", RuntimeDir \o asset.relativePath)
        dotSlash == {k \in Range(asset.runtimeKeys) : k.kind = "rel"}
        listed == {out, pathToFileURL(out), asset.specifier, asset.sourcePath,
                   asset.sourceUrl}
                  \cup Range(asset.runtimeKeys)
                  \cup UNION {BunfsForms(k) : k \in dotSlash}
    IN  /\ \A k \in listed : k \in DOMAIN table /\ table[k] = out
        /\ \A k \in Range(asset.runtimeKeys) \ dotSlash :
             BunfsForms(k) \cap DOMAIN table = {}

\* The block of a build has run whose one asset declares a runtime key
\* starting with "./" and one that does not.
C27_Witness ==
  /\ lastBlock # NoBuild
  /\ Len(lastBlock.assets) = 1
  /\ \E k \in Range(lastBlock.assets[1].runtimeKeys) : k.kind = "rel"
  /\ \E k \in Range(lastBlock.assets[1].runtimeKeys) : k.kind = "bare"
  /\ globals[lastBlock.globalKey].present

(***************************************************************************)
(* Claims about the two registrations of a compiled executable             *)
(* (SpecExtract).                                                          *)
(***************************************************************************)
\* C28: the encoded list and the entries list hold the same keys for each
\* asset, and the second registration, from the entries list, changes no
\* key and no value: the table the block merges is the table the
\* registration from the encoded list alone produces.
C28_SecondRegistrationChangesNothing ==
  lastBlock # NoBuild =>
    /\ \A i \in DOMAIN program.assets :
         Range(EncodedKeys(program.assets[i]))
           = Range(ManifestKeys(program.assets[i]))
    /\ globals[program.globalKey].map
         = RegisterEncoded(EmptyTable, program.assets)

\* The block has run for two assets with different output paths that both
\* declare the shared alias.
C28_Witness ==
  /\ lastBlock # NoBuild
  /\ Len(program.assets) = 2
  /\ EmbedOutputPath(program.assets[1]) # EmbedOutputPath(program.assets[2])
  /\ \A i \in {1, 2} : SharedAlias \in Range(ManifestKeys(program.assets[i]))
  /\ globals[program.globalKey].map[SharedAlias]
       = EmbedOutputPath(program.assets[1])

(***************************************************************************)
(* Claims about reloaded entrypoints and the temporary directory           *)
(* (SpecBuild).                                                            *)
(***************************************************************************)
\* C29: every load of a configured entrypoint yields the same contents as
\* its first load, the file's text preceded by one copy of the startup
\* block: as many loads of it returned the block as there were.
C29_EveryLoadYieldsTheBlock ==
  \A p \in entrypointAbsPaths(config) :
    prepended[p].modified = prepended[p].loads

\* C30: a temporary directory is created only for a compile build with no
\* output root, and none is left once the build is over, whether setup ran
\* to its end or threw after creating it.
C30_TempDirRemoved ==
  /\ tempOutdir => isCompile(config) /\ ~bundleOutputRoot(config)
  /\ bPhase \in {"ended", "failed"} => ~tempOutdir

(***************************************************************************)
(* C31: in embed mode the cache directory is a function of the cache root  *)
(* and the embedded manifest only.  The generated block of a compile build *)
(* joins to its cache root a directory name that is the hash of the        *)
(* embedded manifest, whatever instant the build ran at; the name is a     *)
(* literal of the block, so every launch of the executable computes the    *)
(* same directory from the same cache root, and no launch-time value       *)
(* enters it.                                                              *)
(***************************************************************************)
C31_CacheDirDeterministic ==
  (hooks /\ isCompile(config)) =>
    /\ generated.cacheRoot = cacheRootExpr(config)
    /\ generated.runtimeFingerprint.of = "manifest"
    /\ generated.runtimeFingerprint.text =
         [i \in DOMAIN resolvedAssets |-> CompileEntry(resolvedAssets[i])]

\* A compile build of two assets that ran at the later instant has generated
\* its block.
C31_Witness ==
  /\ hooks
  /\ isCompile(config)
  /\ Len(resolvedAssets) = 2
  /\ generated.now = "t2"
  /\ generated.runtimeFingerprint.of = "manifest"

(***************************************************************************)
(* C32: in a build with several assets, looking up an asset's own output   *)
(* path in the override table returns that same output path: no key or     *)
(* derived key variant registered earlier redirects it to another asset's  *)
(* file.                                                                   *)
(***************************************************************************)
C32_OutputPathLooksUpToItself ==
  lastBlock # NoBuild =>
    \A i \in DOMAIN lastBlock.assets :
      findOverride(lastBlock.globalKey, OutputPath(lastBlock.assets[i]))
        = OutputPath(lastBlock.assets[i])

(***************************************************************************)
(* C33: path form and file:// URL form of a key are interchangeable at     *)
(* lookup.  In every table reachable by executing blocks, if an absolute   *)
(* path is a registered key then looking up its file:// URL form returns   *)
(* the same value, and if a file:// URL is a registered key then looking   *)
(* up its filesystem-path form returns the same value.                     *)
(***************************************************************************)
C33_PathAndUrlInterchangeable ==
  \A g \in GlobalKeys :
    globals[g].present =>
      \A k \in DOMAIN globals[g].map :
        /\ k.kind = "abs" =>
             findOverride(g, pathToFileURL(k)) = globals[g].map[k]
        /\ k.kind = "url" =>
             findOverride(g, fileURLToPath(k)) = globals[g].map[k]

(***************************************************************************)
(* C34: after a block has finished executing in an entrypoint module, that *)
(* module's own import.meta.resolve consults the override table, for every *)
(* entrypoint module of the process, also one whose block ran when the     *)
(* installed flag was already set.  Every module's import.meta.resolve is  *)
(* wrapped, and a call of it with a specifier that every present table     *)
(* holds returns without reaching the host's original.                     *)
(***************************************************************************)
C34_EveryModuleResolveConsultsTable ==
  /\ \A module \in DOMAIN metaResolve : metaResolve[module] # <<>>
  /\ ( /\ lastCall.prim = "metaResolve"
       /\ lastCall.stage = "returned"
       /\ \A g \in GlobalKeys :
            globals[g].present => lastCall.specifier \in DOMAIN globals[g].map )
     => (lastCall.result.kind = "ret" /\ lastCall.result.orig = 0)

====
